---- MODULE Spec2Model ----
(***************************************************************************)
(* Verification model of eng_unit_converter: the Converter family          *)
(* (converters.py) and the Measure family (measure.py).                    *)
(*                                                                         *)
(* Python floats are modelled as decimal floating-point numbers            *)
(* [m |-> mantissa, e |-> exponent] (value m * 10^e) with Digits           *)
(* significant digits and round-half-even, kept in canonical form (no      *)
(* trailing zero in the mantissa), so record equality is numeric equality. *)
(***************************************************************************)
EXTENDS Integers, Sequences, FiniteSets, TLC

\* ------------------------------------------------------------------------
\* Float arithmetic
\* ------------------------------------------------------------------------

\* significant decimal digits carried by a float
Digits == 8

\* Python's None in a float-valued slot: a record that is no canonical float
None == [m |-> 0, e |-> 1]

\* "no exception was raised"
NoExc == "no exception"

Pow10 == [k \in 0..9 |-> 10^k]

Abs(n) == IF n < 0 THEN -n ELSE n

Sgn(n) == IF n < 0 THEN -1 ELSE IF n > 0 THEN 1 ELSE 0

Min(a, b) == IF a < b THEN a ELSE b

Max(a, b) == IF a < b THEN b ELSE a

\* number of decimal digits of n >= 0 (1 for 0)
NDigits(n) ==
    IF n < 10 THEN 1 ELSE IF n < 100 THEN 2 ELSE IF n < 1000 THEN 3
    ELSE IF n < 10000 THEN 4 ELSE IF n < 100000 THEN 5
    ELSE IF n < 1000000 THEN 6 ELSE IF n < 10000000 THEN 7
    ELSE IF n < 100000000 THEN 8 ELSE IF n < 1000000000 THEN 9 ELSE 10

\* the element of a singleton set; { e(v) : v \in {arg} } evaluates arg once
Only(S) == CHOOSE v \in S : TRUE

\* a call f(a[1], ..., a[n]) of one of the functions below: the arguments are
\* evaluated once, then the body of f runs on their values
RECURSIVE Call(_, _)

\* <<quotient, remainder>> of a*b by 10^k, for 0 <= a, b < 46340 * 10^4 and
\* k in 0..8, by schoolbook multiplication in base 10^4 (the product itself
\* does not fit the integers of the checker)
MulPowV(a, b, k) ==
    LET a1  == a \div 10000
        a0  == a % 10000
        b1  == b \div 10000
        b0  == b % 10000
        lo  == a0 * b0
        mid == a1 * b0 + a0 * b1 + (lo \div 10000)
        hi  == a1 * b1 + (mid \div 10000)
        \* a*b = hi * 10^8 + low, low < 10^8
        low == (mid % 10000) * 10000 + (lo % 10000)
    IN  <<hi * Pow10[8 - k] + (low \div Pow10[k]), low % Pow10[k]>>

MulPow(a, b, k) == Call("MulPow", <<a, b, k>>)

\* <<quotient, remainder>> of a * 10^j by b, for 0 <= a and 0 < b < 10^8,
\* by long division
RECURSIVE DivPow(_, _, _)
DivPow(a, j, b) ==
    IF j = 0 THEN <<a \div b, a % b>>
    ELSE Only({ <<h[1] * 10 + ((h[2] * 10) \div b), (h[2] * 10) % b>>
                : h \in {DivPow(a, j - 1, b)} })

\* the float m * 10^e without trailing zeros in its mantissa
StripZerosV(m, e) ==
    IF m = 0 THEN [m |-> 0, e |-> 0]
    ELSE IF m % 10 = 0 THEN Call("StripZeros", <<m \div 10, e + 1>>)
    ELSE [m |-> m, e |-> e]

StripZeros(m, e) == Call("StripZeros", <<m, e>>)

\* the float nearest to s * (n + f) * 10^e, where n >= 0, s is the sign and
\* 0 <= f < 1 with f > 0 iff sticky; round-half-even at Digits digits
NormV(s, n, e, sticky) ==
    LET k == NDigits(n) - Digits
    IN  IF k <= 0 THEN StripZeros(s * n, e)
        ELSE LET q    == n \div Pow10[k]
                 r    == n % Pow10[k]
                 half == 5 * Pow10[k - 1]
                 up   == \/ r > half
                         \/ r = half /\ sticky
                         \/ r = half /\ ~sticky /\ q % 2 = 1
             IN  StripZeros(s * (IF up THEN q + 1 ELSE q), e + k)

Norm(s, n, e, sticky) == Call("Norm", <<s, n, e, sticky>>)

\* the float of a literal m * 10^e whose mantissa has at most Digits digits:
\* nothing to round, the trailing zeros of the mantissa are dropped
RECURSIVE Literal(_, _)
Literal(m, e) ==
    IF m = 0 THEN [m |-> 0, e |-> 0]
    ELSE IF m % 10 = 0 THEN Literal(m \div 10, e + 1)
    ELSE [m |-> m, e |-> e]

\* the float of the integer literal n
F(n) == Literal(n, 0)

\* the float of the literal m * 10^e
Dec(m, e) == Literal(m, e)

Neg(x) == [m |-> -x.m, e |-> x.e]

\* the sum when hm is the mantissa of the operand of higher exponent, widened
\* to the scale 10^e, and the other operand lo is c digits below that scale:
\* sum is hm plus the digits of lo at or above the scale, lr what lo has
\* below it, sl the sign of lo
AddRoundedV(sum, lr, sl, c, e) ==
    LET \* the exact sum is sum + sl*f, 0 <= f < 1, f > 0 iff lr > 0: fold the
        \* fraction f towards the sign of the sum
        adj == IF sl = Sgn(sum) \/ sum = 0 THEN sum ELSE sum - Sgn(sum)
        sg  == IF sum = 0 THEN sl ELSE Sgn(sum)
        \* a borrow can leave 8 digits and no guard digit: the exact
        \* magnitude is then |adj| + (1 - f), rounded to nearest here
        fLtHalf == c > 9 \/ 2 * lr < Pow10[Min(c, 9)]
        fEqHalf == c <= 9 /\ 2 * lr = Pow10[Min(c, 9)]
        up8 == fLtHalf \/ (fEqHalf /\ Abs(adj) % 2 = 1)
    IN  IF lr = 0 THEN Norm(Sgn(sum), Abs(sum), e, FALSE)
        ELSE IF Abs(adj) < Pow10[8]
        THEN StripZeros(sg * (Abs(adj) + (IF up8 THEN 1 ELSE 0)), e)
        ELSE Norm(sg, Abs(adj), e, TRUE)

\* hi + lo for hi.e >= lo.e, both non-zero: hi is widened to at most 9
\* digits, then lo is cut down to its scale
AddAlignedV(hi, lo) ==
    LET d  == hi.e - lo.e
        s  == Min(d, 9 - NDigits(Abs(hi.m)))
        c  == d - s
        lq == IF c = 0 THEN Abs(lo.m)
              ELSE IF c > 9 THEN 0 ELSE Abs(lo.m) \div Pow10[c]
        lr == IF c = 0 THEN 0
              ELSE IF c > 9 THEN 1 ELSE Abs(lo.m) % Pow10[c]
    IN  Call("AddRounded",
             <<hi.m * Pow10[s] + Sgn(lo.m) * lq, lr, Sgn(lo.m), c, lo.e + c>>)

AddV(x, y) ==
    IF x.m = 0 THEN y
    ELSE IF y.m = 0 THEN x
    ELSE IF x.e >= y.e THEN Call("AddAligned", <<x, y>>)
    ELSE Call("AddAligned", <<y, x>>)

\* x + y
FAdd(x, y) == Call("FAdd", <<x, y>>)

\* x - y
FSub(x, y) == Call("FSub", <<x, y>>)

\* half of the smallest positive float, 2**-1075: a product or quotient
\* nearer to 0 than to the smallest positive float is 0
HalfMinFloat == [m |-> 24703282, e |-> -331]

\* the float x after underflow: 0 when its magnitude is at most HalfMinFloat
Underflow(x) ==
    LET d    == NDigits(Abs(x.m))
        top  == x.e + d - 1
        topH == HalfMinFloat.e + NDigits(HalfMinFloat.m) - 1
    IN  IF x.m = 0 THEN x
        ELSE IF top < topH THEN [m |-> 0, e |-> 0]
        ELSE IF top > topH THEN x
        ELSE IF Abs(x.m) * Pow10[Digits - d] <= HalfMinFloat.m
        THEN [m |-> 0, e |-> 0]
        ELSE x

MulRoundedV(x, y) ==
    LET a  == Abs(x.m)
        b  == Abs(y.m)
        k0 == Max(0, NDigits(a) + NDigits(b) - 9)
    IN  Only({ IF k0 > 0 /\ p0[1] < Pow10[8]
               THEN Only({ Norm(Sgn(x.m) * Sgn(y.m), p[1],
                                x.e + y.e + k0 - 1, p[2] > 0)
                           : p \in {MulPow(a, b, k0 - 1)} })
               ELSE Norm(Sgn(x.m) * Sgn(y.m), p0[1], x.e + y.e + k0, p0[2] > 0)
               : p0 \in {MulPow(a, b, k0)} })

MulV(x, y) == Only({ Underflow(r) : r \in {MulRoundedV(x, y)} })

\* x * y
FMul(x, y) == Call("FMul", <<x, y>>)

DivRoundedV(x, y) ==
    LET sx == 8 - NDigits(Abs(x.m))
        a  == Abs(x.m) * Pow10[sx]
        b  == Abs(y.m)
        dy == NDigits(b)
        sg == Sgn(x.m) * Sgn(y.m)
    IN  IF x.m = 0 THEN x
        ELSE Only({ IF p0[1] < Pow10[8]
                    THEN Only({ Norm(sg, p[1], x.e - sx - y.e - dy - 1, p[2] > 0)
                                : p \in {DivPow(a, dy + 1, b)} })
                    ELSE Norm(sg, p0[1], x.e - sx - y.e - dy, p0[2] > 0)
                    : p0 \in {DivPow(a, dy, b)} })

DivV(x, y) == Only({ Underflow(r) : r \in {DivRoundedV(x, y)} })

\* x / y, y # 0
FDiv(x, y) == Call("FDiv", <<x, y>>)

\* sign of x - y: -1, 0 or 1
FCmp(x, y) == Call("FCmp", <<x, y>>)

FLt(x, y) == FCmp(x, y) < 0

FLe(x, y) == FCmp(x, y) <= 0

FAbs(x) == Call("FAbs", <<x>>)

\* x ** n for an integer n >= 1, by repeated multiplication
RECURSIVE PowV(_, _)
PowV(x, n) == IF n = 1 THEN x ELSE FMul(PowV(x, n - 1), x)

FPow(x, n) == Call("FPow", <<x, n>>)

\* s*s <= n * 10^8, for n < 10^9
SqLe(s, n) ==
    /\ s <= 400000000
    /\ Only({ p[1] < n \/ (p[1] = n /\ p[2] = 0) : p \in {MulPow(s, s, 8)} })

\* the largest d in lo..hi with (s + d * p)^2 <= n * 10^8, given that lo is
\* one such d (bisection)
MaxDigit(n, s, p, lo, hi) == Call("MaxDigit", <<n, s, p, lo, hi>>)

MaxDigitV(n, s, p, lo, hi) ==
    IF lo = hi THEN lo
    ELSE LET mid == (lo + hi + 1) \div 2
         IN  IF SqLe(s + mid * p, n) THEN MaxDigit(n, s, p, mid, hi)
             ELSE MaxDigit(n, s, p, lo, mid - 1)

\* floor(sqrt(n * 10^8)) digit by digit: s holds the digits above 10^i
ISqrt(n, i, s) == Call("ISqrt", <<n, i, s>>)

ISqrtV(n, i, s) ==
    IF i = 0 THEN s + MaxDigit(n, s, 1, 0, 9)
    ELSE ISqrt(n, i - 1, s + MaxDigit(n, s, Pow10[i], 0, 9) * Pow10[i])

SqrtV(x) ==
    LET odd == x.e % 2 # 0
        \* mantissa n with an even exponent e2, n < 10^9
        n   == IF odd THEN x.m * 10 ELSE x.m
        e2  == IF odd THEN x.e - 1 ELSE x.e
        sh  == 9 - NDigits(n)
        sh2 == IF sh % 2 = 0 THEN sh ELSE sh - 1
        n2  == n * Pow10[sh2]
        er  == ((e2 - sh2) \div 2) - 4
    IN  IF x.m = 0 THEN x
        ELSE Only({ Only({ LET \* n2 * 10^8 - s*s, between 0 and 2*s
                               rem == (n2 - p[1]) * Pow10[8] - p[2]
                           IN  \* s has 8 or 9 digits; with 8 there is no
                               \* guard digit, so round to nearest here
                               IF s < Pow10[8]
                               THEN Norm(1, IF rem > s THEN s + 1 ELSE s,
                                         er, FALSE)
                               ELSE Norm(1, s, er, rem > 0)
                           : p \in {MulPow(s, s, 8)} })
                    : s \in {ISqrt(n2, 8, 0)} })

\* math.sqrt(x) for x >= 0 (a negative x is the caller's domain error)
FSqrt(x) == Call("FSqrt", <<x>>)

RoundV(x, nd) ==
    LET k == -(x.e) - nd
        a == Abs(x.m)
    IN  IF k <= 0 THEN x
        ELSE IF k > 9 THEN [m |-> 0, e |-> 0]
        ELSE LET q    == a \div Pow10[k]
                 r    == a % Pow10[k]
                 half == 5 * Pow10[k - 1]
                 up   == r > half \/ (r = half /\ q % 2 = 1)
             IN  StripZeros(Sgn(x.m) * (IF up THEN q + 1 ELSE q), -nd)

\* round(x, nd): x rounded half-even to nd decimal places
FRound(x, nd) == Call("FRound", <<x, nd>>)

\* x >= y, x > y
FGe(x, y) == FCmp(x, y) >= 0

FGt(x, y) == FCmp(x, y) > 0

\* ------------------------------------------------------------------------
\* converters.py
\* ------------------------------------------------------------------------

\* outcome of a call: a returned value, or the exception it raised
Ok(v) == [err |-> NoExc, val |-> v]

Raise(e) == [err |-> e, val |-> None]

ErrLow == "ValueError: Value must be >= low_limit"

ErrHi == "ValueError: Value must be <= hi_limit"

ErrCoeff == "ValueError: from_base_coeff must be non zero!"

ErrMath == "ValueError: math domain error"

ValueErrors == {ErrLow, ErrHi, ErrCoeff, ErrMath}

\* the ValueError raised by Converter._check_limits
RangeErrors == {ErrLow, ErrHi}

\* a faulty _check_limits that accepts every value
CheckLimitsV_Off(value, low_limit, hi_limit, precision) == NoExc

\* Converter._check_limits: the exception raised, or NoExc
CheckLimitsV(value, low_limit, hi_limit, precision) ==
    IF low_limit # None
       /\ FLt(FRound(value, precision), FRound(low_limit, precision))
    THEN ErrLow
    ELSE IF hi_limit # None
            /\ FGt(FRound(value, precision), FRound(hi_limit, precision))
    THEN ErrHi
    ELSE NoExc

_check_limits(value, low_limit, hi_limit, precision) ==
    Call("_check_limits", <<value, low_limit, hi_limit, precision>>)

\* the precision parameter's default in _check_limits, from_base, to_base
DefaultPrecision == 2

\* sum of d * x**(i+1) over the tuple D, added to t in ascending order
RECURSIVE Series(_, _, _, _)
Series(t, D, x, i) ==
    IF i > Len(D) THEN t
    ELSE Series(FAdd(t, FMul(D[i], FPow(x, i))), D, x, i + 1)

\* LinearConverter._from_base
LinearFromBase(c, value) ==
    Ok(FAdd(FMul(value, c.from_base_coeff), c.from_base_offset))

\* LinearConverter._to_base
LinearToBase(c, value) ==
    Ok(FDiv(FSub(value, c.from_base_offset), c.from_base_coeff))

\* PtResistConverter._from_base
PtFromBase(c, t) ==
    LET lin == FAdd(FAdd(F(1), FMul(c.A, t)), FMul(c.B, FPow(t, 2)))
    IN  IF FLe(F(-200), t) /\ FLe(t, F(0))
        THEN Ok(FMul(c.R0, FAdd(lin, FMul(FMul(c.C, FSub(t, F(100))),
                                          FPow(t, 3)))))
        ELSE Ok(FMul(c.R0, lin))

\* a faulty quadratic inverse that does not divide the resistance by R0
QuadraticInverse_NoR0(c, R) ==
    Only({ IF disc.m < 0 THEN Raise(ErrMath)
           ELSE Ok(FDiv(FSub(FSqrt(disc), c.A), FMul(F(2), c.B)))
           : disc \in {FSub(FPow(c.A, 2),
                            FMul(FMul(F(4), c.B), FSub(F(1), R)))} })

\* the quadratic inverse (math.sqrt(A**2 - 4*B*(1 - R/R0)) - A) / (2*B);
\* math.sqrt raises ValueError on a negative argument
QuadraticInverse(c, R) ==
    Only({ IF disc.m < 0 THEN Raise(ErrMath)
           ELSE Ok(FDiv(FSub(FSqrt(disc), c.A), FMul(F(2), c.B)))
           : disc \in {FSub(FPow(c.A, 2),
                            FMul(FMul(F(4), c.B),
                                 FSub(F(1), FDiv(R, c.R0))))} })

\* PtResistConverter._to_base
PtToBase(c, R) ==
    IF FGe(FDiv(R, c.R0), F(1))
    THEN QuadraticInverse(c, R)
    ELSE Ok(Series(F(0), c.D, FSub(FDiv(R, c.R0), F(1)), 1))

\* CuResistConverter._from_base
CuFromBase(c, t) ==
    LET chk == _check_limits(t, c.base_low, c.base_hi, DefaultPrecision)
        lin == FAdd(F(1), FMul(c.A, t))
    IN  IF chk # NoExc THEN Raise(chk)
        ELSE IF FLe(F(-180), t) /\ FLe(t, F(0))
        THEN Ok(FMul(c.R0,
                     FAdd(FAdd(lin, FMul(FMul(c.B, t), FAdd(t, Dec(67, -1)))),
                          FMul(c.C, FPow(t, 3)))))
        ELSE Ok(FMul(c.R0, lin))

\* CuResistConverter._to_base
CuToBase(c, R) ==
    LET chk == _check_limits(R, c.converted_low, c.converted_hi,
                             DefaultPrecision)
    IN  IF chk # NoExc THEN Raise(chk)
        ELSE IF FGe(FDiv(R, c.R0), F(1))
        THEN Ok(FDiv(FSub(FDiv(R, c.R0), F(1)), c.A))
        ELSE Ok(Series(F(0), c.D, FSub(FDiv(R, c.R0), F(1)), 1))

\* a faulty NiResistConverter._from_base that leaves the first polynomial at
\* 0 C
NiFromBase_BreakAtZero(c, t) ==
    LET quad == FAdd(FAdd(F(1), FMul(c.A, t)), FMul(c.B, FPow(t, 2)))
    IN  IF FLe(F(-60), t) /\ FLe(t, F(0))
        THEN Ok(FMul(c.R0, quad))
        ELSE Ok(FMul(c.R0,
                     FAdd(quad, FMul(FMul(c.C, FSub(t, F(100))),
                                     FPow(t, 2)))))

\* NiResistConverter._from_base
NiFromBase(c, t) ==
    LET quad == FAdd(FAdd(F(1), FMul(c.A, t)), FMul(c.B, FPow(t, 2)))
    IN  IF FLe(F(-60), t) /\ FLe(t, F(100))
        THEN Ok(FMul(c.R0, quad))
        ELSE Ok(FMul(c.R0, FAdd(quad, FMul(FMul(c.C, FSub(t, F(100))),
                                           FPow(t, 2)))))

\* NiResistConverter._to_base
NiToBase(c, R) ==
    IF FLe(R, Dec(16172, -2))
    THEN QuadraticInverse(c, R)
    ELSE Ok(Series(F(100), c.D, FSub(FDiv(R, c.R0), Dec(16172, -4)), 1))

\* dispatch of the abstract Converter._from_base
_from_base(c, value) ==
    CASE c.kind = "Linear" -> LinearFromBase(c, value)
      [] c.kind = "Pt"     -> PtFromBase(c, value)
      [] c.kind = "Cu"     -> CuFromBase(c, value)
      [] c.kind = "Ni"     -> NiFromBase(c, value)

\* dispatch of the abstract Converter._to_base
_to_base(c, value) ==
    CASE c.kind = "Linear" -> LinearToBase(c, value)
      [] c.kind = "Pt"     -> PtToBase(c, value)
      [] c.kind = "Cu"     -> CuToBase(c, value)
      [] c.kind = "Ni"     -> NiToBase(c, value)

\* a faulty from_base that converts without checking the base bounds
FromBaseV_Unchecked(c, value, precision) == _from_base(c, value)

\* Converter.from_base: _check_limits against the base bounds, then _from_base
FromBaseV(c, value, precision) ==
    LET chk == _check_limits(value, c.base_low, c.base_hi, precision)
    IN  IF chk # NoExc THEN Raise(chk) ELSE _from_base(c, value)

\* Converter.to_base: _check_limits against the converted bounds, then
\* _to_base
ToBaseV(c, value, precision) ==
    LET chk == _check_limits(value, c.converted_low, c.converted_hi, precision)
    IN  IF chk # NoExc THEN Raise(chk) ELSE _to_base(c, value)

\* Converter.from_base(value, precision)
from_base(self, value, precision) ==
    Call("from_base", <<self, value, precision>>)

\* Converter.to_base(value, precision)
to_base(self, value, precision) ==
    Call("to_base", <<self, value, precision>>)

\* Converter.__init__: self.base_hi, self.base_low are set, then converted_hi
\* and converted_low are derived with from_base (whose checks see the base
\* bounds only); self0 carries the subclass's fields
ConverterInitV(self0, base_low, base_hi) ==
    LET self1 == [self0 EXCEPT !.base_low = base_low, !.base_hi = base_hi]
    IN  Only({ IF hi.err # NoExc THEN Raise(hi.err)
               ELSE Only({ IF lo.err # NoExc THEN Raise(lo.err)
                           ELSE Ok([self1 EXCEPT !.converted_hi = hi.val,
                                                 !.converted_low = lo.val])
                           : lo \in {IF base_low = None THEN Ok(None)
                                     ELSE from_base(self1, base_low,
                                                    DefaultPrecision)} })
               : hi \in {IF base_hi = None THEN Ok(None)
                         ELSE from_base(self1, base_hi, DefaultPrecision)} })

Converter(self, base_low, base_hi) ==
    Call("Converter", <<self, base_low, base_hi>>)

\* the attributes of a converter object before any __init__ has run
Blank(kind) ==
    [kind |-> kind, from_base_coeff |-> None, from_base_offset |-> None,
     R0 |-> None, A |-> None, B |-> None, C |-> None, D |-> None,
     base_low |-> None, base_hi |-> None,
     converted_low |-> None, converted_hi |-> None]

\* a faulty LinearConverter.__init__ without the test of the coefficient
LinearConverter_NoCheck(from_base_coeff, from_base_offset, base_low, base_hi) ==
    Converter([Blank("Linear") EXCEPT
                  !.from_base_coeff = from_base_coeff,
                  !.from_base_offset = from_base_offset],
              base_low, base_hi)

\* LinearConverter(from_base_coeff, from_base_offset, base_low, base_hi)
LinearConverter(from_base_coeff, from_base_offset, base_low, base_hi) ==
    IF from_base_coeff = F(0) THEN Raise(ErrCoeff)
    ELSE Converter([Blank("Linear") EXCEPT
                        !.from_base_coeff = from_base_coeff,
                        !.from_base_offset = from_base_offset],
                   base_low, base_hi)

\* MultConverter(from_base_coeff, base_low, base_hi)
MultConverter(from_base_coeff, base_low, base_hi) ==
    IF from_base_coeff = F(0) THEN Raise(ErrCoeff)
    ELSE LinearConverter(from_base_coeff, F(0), base_low, base_hi)

\* PtResistConverter(R0, A, B, C, D, base_low, base_hi)
PtResistConverter(R0, A, B, C, D, base_low, base_hi) ==
    Converter([Blank("Pt") EXCEPT !.R0 = R0, !.A = A, !.B = B, !.C = C,
                                  !.D = D],
              base_low, base_hi)

\* CuResistConverter(R0, A, B, C, D, base_low, base_hi)
CuResistConverter(R0, A, B, C, D, base_low, base_hi) ==
    Converter([Blank("Cu") EXCEPT !.R0 = R0, !.A = A, !.B = B, !.C = C,
                                  !.D = D],
              base_low, base_hi)

\* NiResistConverter(R0, A, B, C, D, base_low, base_hi)
NiResistConverter(R0, A, B, C, D, base_low, base_hi) ==
    Converter([Blank("Ni") EXCEPT !.R0 = R0, !.A = A, !.B = B, !.C = C,
                                  !.D = D],
              base_low, base_hi)

\* ------------------------------------------------------------------------
\* measure.py
\* ------------------------------------------------------------------------

ErrType == "TypeError: Values must have the same type"

ErrArgs == "TypeError: __init__() missing 3 required positional arguments"

ErrKey == "KeyError"

TypeErrors == {ErrType, ErrArgs}

Classes ==
    {"Temperature", "Pressure", "MassFlow", "ThermoResistor",
     "AnalogSensorMeasure"}

\* the member `name` of the enumeration cls.SupportedUnits
U(cls, name) == [enum |-> cls, name |-> name]

\* the members of each SupportedUnits enumeration, in definition order
UnitNames ==
    [Temperature |-> <<"C", "F", "K">>,
     Pressure |-> <<"Pa", "kPa", "MPa", "kgs_sm_2", "kgs_m_2", "bar",
                    "mm_hg", "mm_h20", "m_h20", "atm">>,
     MassFlow |-> <<"kg_h", "t_h", "kg_d", "kg_s", "t_s">>,
     ThermoResistor |-> <<"C", "F", "K", "P100_Ohm", "P50_Ohm", "Pt100_Ohm",
                          "Pt50_Ohm", "Ni100_Ohm", "Cu100_Ohm">>,
     AnalogSensorMeasure |-> <<"persent", "mA_4_20", "mA_0_20", "V_1_5",
                               "MEASURE">>]

SupportedUnits(cls) ==
    {U(cls, UnitNames[cls][i]) : i \in 1..Len(UnitNames[cls])}

AllUnits == UNION {SupportedUnits(cls) : cls \in Classes}

\* UnitsHolder.eu of every enumeration member as the class bodies set it
InitialEu ==
    [u \in AllUnits |->
        CASE u.enum = "Temperature" -> u.name
          [] u.enum = "Pressure" ->
                [Pa |-> "Pa", kPa |-> "kPa", MPa |-> "MPa",
                 kgs_sm_2 |-> "kgs/sm2", kgs_m_2 |-> "kgs/m2", bar |-> "bar",
                 mm_hg |-> "mm.hg", mm_h20 |-> "mm.H2O", m_h20 |-> "m.H2O",
                 atm |-> "atm"][u.name]
          [] u.enum = "MassFlow" ->
                [kg_h |-> "kg/h", t_h |-> "t/h", kg_d |-> "kg/d",
                 kg_s |-> "kg/s", t_s |-> "t/s"][u.name]
          [] u.enum = "ThermoResistor" ->
                IF u.name \in {"C", "F", "K"} THEN u.name ELSE "Ohms"
          [] u.enum = "AnalogSensorMeasure" ->
                [persent |-> "%", mA_4_20 |-> "mA", mA_0_20 |-> "mA",
                 V_1_5 |-> "V", MEASURE |-> "EU"][u.name]]

\* a dict display {k1: e1, ...}: the entries are evaluated in order and the
\* first exception ends the evaluation; ents is a tuple of <<key, outcome>>
RECURSIVE FirstErr(_, _)
FirstErr(ents, i) ==
    IF i > Len(ents) THEN NoExc
    ELSE IF ents[i][2].err # NoExc THEN ents[i][2].err
    ELSE FirstErr(ents, i + 1)

DictV(ents) ==
    IF FirstErr(ents, 1) # NoExc THEN Raise(FirstErr(ents, 1))
    ELSE Ok([k \in {ents[i][1] : i \in 1..Len(ents)} |->
                ents[CHOOSE i \in 1..Len(ents) :
                         /\ ents[i][1] = k
                         /\ \A j \in (i + 1)..Len(ents) : ents[j][1] # k][2].val])

Dict(ents) == Call("Dict", <<ents>>)

\* Temperature._get_converters
TemperatureConverters ==
    Dict(<< <<U("Temperature", "C"), LinearConverter(F(1), F(0), None, None)>>,
            <<U("Temperature", "F"),
              LinearConverter(Dec(18, -1), F(32), None, None)>>,
            <<U("Temperature", "K"),
              LinearConverter(F(1), Dec(27315, -2), None, None)>> >>)

\* Pressure._get_converters
PressureConverters ==
    Dict(<< <<U("Pressure", "Pa"), MultConverter(F(1), None, None)>>,
            <<U("Pressure", "kPa"), MultConverter(Dec(1, -3), None, None)>>,
            <<U("Pressure", "MPa"), MultConverter(Dec(1, -6), None, None)>>,
            <<U("Pressure", "kgs_sm_2"),
              MultConverter(Dec(10197162, -15), None, None)>>,
            <<U("Pressure", "kgs_m_2"),
              MultConverter(Dec(10197162, -8), None, None)>>,
            <<U("Pressure", "bar"), MultConverter(Dec(1, -5), None, None)>>,
            <<U("Pressure", "mm_hg"),
              MultConverter(Dec(75006158, -10), None, None)>>,
            <<U("Pressure", "mm_h20"),
              MultConverter(Dec(10197162, -8), None, None)>>,
            <<U("Pressure", "m_h20"),
              MultConverter(Dec(10197162, -11), None, None)>>,
            <<U("Pressure", "atm"),
              MultConverter(Dec(98692327, -13), None, None)>> >>)

\* MassFlow._get_converters
MassFlowConverters ==
    Dict(<< <<U("MassFlow", "kg_h"), MultConverter(F(1), None, None)>>,
            <<U("MassFlow", "t_h"), MultConverter(Dec(1, -3), None, None)>>,
            <<U("MassFlow", "kg_d"), MultConverter(F(24), None, None)>>,
            <<U("MassFlow", "kg_s"),
              MultConverter(FDiv(F(1), F(3600)), None, None)>>,
            <<U("MassFlow", "t_s"),
              MultConverter(FDiv(Dec(1, -3), F(3600)), None, None)>> >>)

\* the coefficient tuples D of the registered resistance curves
D_P == <<Dec(251903, -3), Dec(880035, -5), Dec(-291506, -5), Dec(167611, -5)>>

D_Pt == <<Dec(255819, -3), Dec(914550, -5), Dec(-292363, -5), Dec(179090, -5)>>

D_Ni == <<Dec(144096, -3), Dec(-25502, -3), Dec(44876, -4)>>

D_Cu == <<Dec(23387, -2), Dec(79370, -4), Dec(-20062, -4), Dec(-3953, -4)>>

\* ThermoResistor._get_converters; the resistance converters take the
\* default base_low, base_hi of their constructors
ThermoResistorConverters ==
    Dict(<< <<U("ThermoResistor", "C"), MultConverter(F(1), None, None)>>,
            <<U("ThermoResistor", "F"),
              LinearConverter(Dec(18, -1), F(32), None, None)>>,
            <<U("ThermoResistor", "K"),
              LinearConverter(F(1), Dec(27315, -2), None, None)>>,
            <<U("ThermoResistor", "P100_Ohm"),
              PtResistConverter(F(100), Dec(39690, -7), Dec(-5841, -10),
                                Dec(-4330, -15), D_P, F(-200), F(850))>>,
            <<U("ThermoResistor", "P50_Ohm"),
              PtResistConverter(F(50), Dec(39690, -7), Dec(-5841, -10),
                                Dec(-4330, -15), D_P, F(-200), F(850))>>,
            <<U("ThermoResistor", "Pt100_Ohm"),
              PtResistConverter(F(100), Dec(39083, -7), Dec(-5775, -10),
                                Dec(-4183, -15), D_Pt, F(-200), F(850))>>,
            <<U("ThermoResistor", "Pt50_Ohm"),
              PtResistConverter(F(50), Dec(39083, -7), Dec(-5775, -10),
                                Dec(-4183, -15), D_Pt, F(-200), F(850))>>,
            <<U("ThermoResistor", "Ni100_Ohm"),
              NiResistConverter(F(100), Dec(54963, -7), Dec(67556, -10),
                                Dec(92004, -13), D_Ni, F(-60), F(180))>>,
            <<U("ThermoResistor", "Cu100_Ohm"),
              CuResistConverter(F(100), Dec(428, -5), Dec(-62032, -11),
                                Dec(85154, -14), D_Cu, F(-180), F(200))>> >>)

\* a faulty _get_converters whose MEASURE converter takes self.measure_scale_low
\* for the offset
AnalogSensorMeasureConverters_Inverted(self) ==
    Dict(<< <<U("AnalogSensorMeasure", "persent"),
              MultConverter(F(1), None, None)>>,
            <<U("AnalogSensorMeasure", "mA_4_20"),
              LinearConverter(Dec(16, -2), F(4), None, None)>>,
            <<U("AnalogSensorMeasure", "mA_0_20"),
              LinearConverter(Dec(2, -1), F(0), None, None)>>,
            <<U("AnalogSensorMeasure", "V_1_5"),
              LinearConverter(Dec(4, -2), F(1), None, None)>>,
            <<U("AnalogSensorMeasure", "MEASURE"),
              LinearConverter(
                  FDiv(FSub(self.measure_scale_hi, self.measure_scale_low),
                       F(100)),
                  self.measure_scale_low, None, None)>> >>)

\* a faulty AnalogSensorMeasure._get_converters that gives the MEASURE
\* converter the coefficient 1 when the scale endpoints are equal
AnalogSensorMeasureConverters_Guarded(self) ==
    Dict(<< <<U("AnalogSensorMeasure", "persent"),
              MultConverter(F(1), None, None)>>,
            <<U("AnalogSensorMeasure", "mA_4_20"),
              LinearConverter(Dec(16, -2), F(4), None, None)>>,
            <<U("AnalogSensorMeasure", "mA_0_20"),
              LinearConverter(Dec(2, -1), F(0), None, None)>>,
            <<U("AnalogSensorMeasure", "V_1_5"),
              LinearConverter(Dec(4, -2), F(1), None, None)>>,
            <<U("AnalogSensorMeasure", "MEASURE"),
              LinearConverter(
                  IF self.measure_scale_low = self.measure_scale_hi THEN F(1)
                  ELSE FDiv(FSub(self.measure_scale_low,
                                 self.measure_scale_hi), F(100)),
                  self.measure_scale_hi, None, None)>> >>)

\* AnalogSensorMeasure._get_converters, reading self.measure_scale_low and
\* self.measure_scale_hi
AnalogSensorMeasureConverters(self) ==
    Dict(<< <<U("AnalogSensorMeasure", "persent"),
              MultConverter(F(1), None, None)>>,
            <<U("AnalogSensorMeasure", "mA_4_20"),
              LinearConverter(Dec(16, -2), F(4), None, None)>>,
            <<U("AnalogSensorMeasure", "mA_0_20"),
              LinearConverter(Dec(2, -1), F(0), None, None)>>,
            <<U("AnalogSensorMeasure", "V_1_5"),
              LinearConverter(Dec(4, -2), F(1), None, None)>>,
            <<U("AnalogSensorMeasure", "MEASURE"),
              LinearConverter(
                  FDiv(FSub(self.measure_scale_low, self.measure_scale_hi),
                       F(100)),
                  self.measure_scale_hi, None, None)>> >>)

\* dispatch of the abstract Measure._get_converters
_get_converters(self) ==
    CASE self.cls = "Temperature" -> TemperatureConverters
      [] self.cls = "Pressure" -> PressureConverters
      [] self.cls = "MassFlow" -> MassFlowConverters
      [] self.cls = "ThermoResistor" -> ThermoResistorConverters
      [] self.cls = "AnalogSensorMeasure" -> AnalogSensorMeasureConverters(self)

\* the unit each _set_base_unit assigns to self.base_unit
BaseUnit ==
    [Temperature |-> U("Temperature", "C"),
     Pressure |-> U("Pressure", "Pa"),
     MassFlow |-> U("MassFlow", "kg_h"),
     ThermoResistor |-> U("ThermoResistor", "C"),
     AnalogSensorMeasure |-> U("AnalogSensorMeasure", "persent")]

\* the attributes of a Measure object before any __init__ has run
NoUnit == U("None", "None")

NoConverters == [u \in {} |-> Blank("None")]

BlankMeasure(cls) ==
    [cls |-> cls, value |-> None, unit |-> NoUnit,
     _converters |-> NoConverters, base_unit |-> NoUnit, base_value |-> None,
     measure_scale_low |-> None, measure_scale_hi |-> None]

\* an operand that is not a Measure (an int)
NotAMeasure == BlankMeasure("int")

\* a faulty __init__ that stores the value as the base value without calling
\* to_base
MeasureInitV_Unchecked(self0, value, unit) ==
    LET self1 == [self0 EXCEPT !.value = value, !.unit = unit]
    IN  Only({ IF convs.err # NoExc THEN Raise(convs.err)
               ELSE IF unit \notin DOMAIN convs.val THEN Raise(ErrKey)
               ELSE Ok([self1 EXCEPT !._converters = convs.val,
                                     !.base_unit = BaseUnit[self0.cls],
                                     !.base_value = value])
               : convs \in {_get_converters(self1)} })

\* Measure.__init__(self, value, unit) on the object self0: the initialised
\* object, or the exception
MeasureInitV(self0, value, unit) ==
    LET self1 == [self0 EXCEPT !.value = value, !.unit = unit]
    IN  Only({ IF convs.err # NoExc THEN Raise(convs.err)
               ELSE IF unit \notin DOMAIN convs.val THEN Raise(ErrKey)
               ELSE Only({ IF b.err # NoExc THEN Raise(b.err)
                           ELSE Ok([self1 EXCEPT
                                       !._converters = convs.val,
                                       !.base_unit = BaseUnit[self0.cls],
                                       !.base_value = b.val])
                           : b \in {to_base(convs.val[unit], value,
                                            DefaultPrecision)} })
               : convs \in {_get_converters(self1)} })

MeasureInit(self, value, unit) ==
    Call("Measure", <<self, value, unit>>)

\* the call cls(value, unit) for the four classes that inherit
\* Measure.__init__; AnalogSensorMeasure.__init__ needs three more arguments
New(cls, value, unit) ==
    IF cls = "AnalogSensorMeasure" THEN Raise(ErrArgs)
    ELSE MeasureInit(BlankMeasure(cls), value, unit)

MEASURE == U("AnalogSensorMeasure", "MEASURE")

\* a faulty AnalogSensorMeasure.__init__ that stores each endpoint under its
\* own name
NewAnalog_NoSwap(value, unit, measure_scale_low, measure_scale_hi, measure_eu, eu0) ==
    [out |-> MeasureInit([BlankMeasure("AnalogSensorMeasure") EXCEPT
                             !.measure_scale_low = measure_scale_low,
                             !.measure_scale_hi = measure_scale_hi],
                         value, unit),
     eu |-> [eu0 EXCEPT ![MEASURE] = measure_eu]]

\* AnalogSensorMeasure(value, unit, measure_scale_low, measure_scale_hi,
\* measure_eu): the outcome and the UnitsHolder labels afterwards (the label
\* of the shared MEASURE member is assigned before Measure.__init__ runs)
NewAnalog(value, unit, measure_scale_low, measure_scale_hi, measure_eu, eu0) ==
    [out |-> MeasureInit([BlankMeasure("AnalogSensorMeasure") EXCEPT
                             !.measure_scale_low = measure_scale_hi,
                             !.measure_scale_hi = measure_scale_low],
                         value, unit),
     eu |-> [eu0 EXCEPT ![MEASURE] = measure_eu]]

\* a faulty convert_to that builds its result in the unit of self
ConvertToV_SameUnit(self, unit, eu0) ==
    IF unit \notin DOMAIN self._converters
    THEN [out |-> Raise(ErrKey), eu |-> eu0, self |-> self]
    ELSE Only({ IF cv.err # NoExc
                THEN [out |-> Raise(cv.err), eu |-> eu0, self |-> self]
                ELSE IF self.cls = "AnalogSensorMeasure"
                THEN Only({ [out |-> n.out, eu |-> n.eu, self |-> self]
                            : n \in {NewAnalog(cv.val, self.unit,
                                               self.measure_scale_hi,
                                               self.measure_scale_low,
                                               eu0[MEASURE], eu0)} })
                ELSE [out |-> New(self.cls, cv.val, self.unit), eu |-> eu0,
                      self |-> self]
                : cv \in {from_base(self._converters[unit], self.base_value,
                                    DefaultPrecision)} })

\* a faulty convert_to that passes the attributes measure_scale_low and
\* measure_scale_hi in the order of their names
ConvertToV_Swapped(self, unit, eu0) ==
    IF unit \notin DOMAIN self._converters
    THEN [out |-> Raise(ErrKey), eu |-> eu0, self |-> self]
    ELSE Only({ IF cv.err # NoExc
                THEN [out |-> Raise(cv.err), eu |-> eu0, self |-> self]
                ELSE IF self.cls = "AnalogSensorMeasure"
                THEN Only({ [out |-> n.out, eu |-> n.eu, self |-> self]
                            : n \in {NewAnalog(cv.val, unit,
                                               self.measure_scale_low,
                                               self.measure_scale_hi,
                                               eu0[MEASURE], eu0)} })
                ELSE [out |-> New(self.cls, cv.val, unit), eu |-> eu0,
                      self |-> self]
                : cv \in {from_base(self._converters[unit], self.base_value,
                                    DefaultPrecision)} })

\* self.convert_to(unit) of Measure, overridden by AnalogSensorMeasure: the
\* outcome, the labels afterwards and the attributes of self afterwards
\* (no statement of either method assigns to self)
ConvertToV(self, unit, eu0) ==
    IF unit \notin DOMAIN self._converters
    THEN [out |-> Raise(ErrKey), eu |-> eu0, self |-> self]
    ELSE Only({ IF cv.err # NoExc
                THEN [out |-> Raise(cv.err), eu |-> eu0, self |-> self]
                ELSE IF self.cls = "AnalogSensorMeasure"
                THEN Only({ [out |-> n.out, eu |-> n.eu, self |-> self]
                            : n \in {NewAnalog(cv.val, unit,
                                               self.measure_scale_hi,
                                               self.measure_scale_low,
                                               eu0[MEASURE], eu0)} })
                ELSE [out |-> New(self.cls, cv.val, unit), eu |-> eu0,
                      self |-> self]
                : cv \in {from_base(self._converters[unit], self.base_value,
                                    DefaultPrecision)} })

convert_to(self, unit, eu0) == Call("convert_to", <<self, unit, eu0>>)

\* a faulty isinstance that accepts every operand
IsInstance_Any(other, cls) == TRUE

\* isinstance(other, self.__class__); other is a Measure object or the
\* non-Measure value NotAMeasure
IsInstance(other, cls) == other.cls = cls

\* a faulty in-place operator: the result is also stored into self
Arith_InPlace(self, other, sign, eu0) ==
    IF ~IsInstance(other, self.cls)
    THEN [out |-> Raise(ErrType), eu |-> eu0, self |-> self, other |-> other]
    ELSE Only({ IF tmp.err # NoExc
                THEN [out |-> tmp, eu |-> eu0, self |-> self, other |-> other]
                ELSE Only({ [out |-> c.out, eu |-> c.eu,
                             self |-> IF c.out.err = NoExc THEN c.out.val
                                      ELSE self,
                             other |-> other]
                            : c \in {convert_to(tmp.val, self.unit, eu0)} })
                : tmp \in {New(self.cls,
                               IF sign = 1
                               THEN FAdd(self.base_value, other.base_value)
                               ELSE FSub(self.base_value, other.base_value),
                               self.base_unit)} })

\* the common body of __add__ (sign = 1) and __sub__ (sign = -1): the outcome,
\* the labels and the attributes of both operands afterwards
Arith(self, other, sign, eu0) ==
    IF ~IsInstance(other, self.cls)
    THEN [out |-> Raise(ErrType), eu |-> eu0, self |-> self, other |-> other]
    ELSE Only({ IF tmp.err # NoExc
                THEN [out |-> tmp, eu |-> eu0, self |-> self, other |-> other]
                ELSE Only({ [out |-> c.out, eu |-> c.eu, self |-> self,
                             other |-> other]
                            : c \in {convert_to(tmp.val, self.unit, eu0)} })
                : tmp \in {New(self.cls,
                               IF sign = 1
                               THEN FAdd(self.base_value, other.base_value)
                               ELSE FSub(self.base_value, other.base_value),
                               self.base_unit)} })

\* a faulty __add__ that takes the unit of its result from other
__add__Swapped(self, other, eu0) ==
    IF IsInstance(other, self.cls) THEN Call("__add__", <<other, self, eu0>>)
    ELSE Call("__add__", <<self, other, eu0>>)

\* Measure.__add__
__add__(self, other, eu0) == Call("__add__", <<self, other, eu0>>)

\* Measure.__sub__
__sub__(self, other, eu0) == Call("__sub__", <<self, other, eu0>>)

\* a faulty __eq__ that compares the values in the units of the operands
__eq__ByValue(self, other) ==
    IF ~IsInstance(other, self.cls) THEN FALSE
    ELSE self.value = other.value

\* Measure.__eq__
__eq__(self, other) ==
    IF ~IsInstance(other, self.cls) THEN FALSE
    ELSE self.base_value = other.base_value

\* Measure.__str__: the value and the unit label of f'{value} {unit.value}'
__str__(self, eu0) == <<self.value, eu0[self.unit]>>

\* ------------------------------------------------------------------------
\* Calls: every function is entered with its arguments already evaluated
\* ------------------------------------------------------------------------

Call(f, a0) ==
    Only({ CASE f = "MulPow" -> MulPowV(a[1], a[2], a[3])
             [] f = "StripZeros" -> StripZerosV(a[1], a[2])
             [] f = "Norm" -> NormV(a[1], a[2], a[3], a[4])
             [] f = "AddRounded" -> AddRoundedV(a[1], a[2], a[3], a[4], a[5])
             [] f = "AddAligned" -> AddAlignedV(a[1], a[2])
             [] f = "MaxDigit" -> MaxDigitV(a[1], a[2], a[3], a[4], a[5])
             [] f = "ISqrt" -> ISqrtV(a[1], a[2], a[3])
             [] f = "FAdd" -> AddV(a[1], a[2])
             [] f = "FSub" -> AddV(a[1], Neg(a[2]))
             [] f = "FMul" -> MulV(a[1], a[2])
             [] f = "FDiv" -> DivV(a[1], a[2])
             [] f = "FCmp" -> Sgn(AddV(a[1], Neg(a[2])).m)
             [] f = "FAbs" -> [m |-> Abs(a[1].m), e |-> a[1].e]
             [] f = "FPow" -> PowV(a[1], a[2])
             [] f = "FSqrt" -> SqrtV(a[1])
             [] f = "FRound" -> RoundV(a[1], a[2])
             [] f = "_check_limits" -> CheckLimitsV(a[1], a[2], a[3], a[4])
             [] f = "from_base" -> FromBaseV(a[1], a[2], a[3])
             [] f = "to_base" -> ToBaseV(a[1], a[2], a[3])
             [] f = "Converter" -> ConverterInitV(a[1], a[2], a[3])
             [] f = "Dict" -> DictV(a[1])
             [] f = "Measure" -> MeasureInitV(a[1], a[2], a[3])
             [] f = "convert_to" -> ConvertToV(a[1], a[2], a[3])
             [] f = "__add__" -> Arith(a[1], a[2], 1, a[3])
             [] f = "__sub__" -> Arith(a[1], a[2], -1, a[3])
           : a \in {a0} })

\* ------------------------------------------------------------------------
\* The client: a bounded collection of Measure objects and the calls on them
\* ------------------------------------------------------------------------

\* the client program that runs: it fixes the constructor arguments and the
\* target units the calls are drawn from
VARIABLE client

\* the Measure objects the client holds references to, in creation order
VARIABLE heap

\* UnitsHolder.eu of every enumeration member (shared by all instances)
VARIABLE eu

\* the last call: its name, arguments, exception and returned value
VARIABLE last

\* the converter a converter program holds, and its last call on it
VARIABLE bench

\* the position and the local variables of every thread of a threaded program
VARIABLE thread

vars == <<client, heap, eu, last, bench, thread>>

\* number of objects a client keeps
MaxInst == 2

T(name) == U("Temperature", name)

R(name) == U("ThermoResistor", name)

A(name) == U("AnalogSensorMeasure", name)

Clients ==
    {"temperature", "mixed", "thermo", "thermo_low", "analog", "scale",
     "endpoints"}

\* arguments of the constructor calls cls(value, unit) each client makes
MeasureInputs ==
    [temperature |-> { <<"Temperature", F(10), T("C")>>,
                       <<"Temperature", Dec(28315, -2), T("K")>> },
     mixed |-> { <<"Temperature", F(10), T("C")>>,
                 <<"Pressure", F(1), U("Pressure", "atm")>>,
                 <<"MassFlow", F(50), U("MassFlow", "kg_h")>> },
     thermo |-> { <<"ThermoResistor", F(500), R("C")>>,
                  <<"ThermoResistor", Dec(1428, -1), R("Cu100_Ohm")>>,
                  <<"ThermoResistor", F(17), R("Pt100_Ohm")>>,
                  <<"ThermoResistor", Dec(200004, -3), R("C")>> },
     thermo_low |-> { <<"ThermoResistor", F(-50), R("C")>>,
                      <<"ThermoResistor", Dec(1852, -2), R("Pt100_Ohm")>> },
     analog |-> {},
     scale |-> {},
     endpoints |-> {}]

\* arguments of the calls AnalogSensorMeasure(value, unit, measure_scale_low,
\* measure_scale_hi, measure_eu) each client makes
AnalogInputs ==
    [c \in Clients |->
        IF c = "analog"
        THEN { <<F(12), A("mA_4_20"), F(0), F(100), "kPa">>,
               <<F(50), A("persent"), F(50), F(250), "bar">>,
               <<F(50), A("persent"), F(100), F(100), "kPa">> }
        ELSE IF c = "scale"
        THEN { <<F(0), A("persent"), F(50), F(250), "some_unit">>,
               <<F(100), A("persent"), F(50), F(250), "some_unit">>,
               <<F(33), A("persent"), F(0), F(7), "some_unit">>,
               <<Dec(12345678, -8), A("persent"), F(0), F(100),
                 "some_unit">> }
        ELSE IF c = "endpoints"
        THEN { <<F(50), A("mA_4_20"), F(100), F(100), "kPa">>,
               <<F(0), A("MEASURE"), F(0), F(0), "kPa">>,
               <<F(12), A("V_1_5"), F(7), F(7), "kPa">>,
               <<F(-5), A("mA_0_20"), F(-5), F(-5), "kPa">>,
               <<F(50), A("persent"), F(0), Dec(5, -324), "kPa">>,
               <<F(50), A("MEASURE"), Dec(1, -322), F(0), "kPa">>,
               <<F(50), A("persent"), F(0), Dec(1, -300), "kPa">>,
               <<F(-1000), A("V_1_5"), F(250), F(50), "kPa">> }
        ELSE {}]

\* units each client passes to convert_to
TargetUnits ==
    [temperature |-> {T("F"), T("K")},
     mixed |-> {U("Pressure", "kPa"), U("MassFlow", "t_s")},
     thermo |-> {R("C"), R("Cu100_Ohm")},
     thermo_low |-> {R("Pt100_Ohm"), R("Ni100_Ohm")},
     analog |-> {A("MEASURE"), A("mA_0_20")},
     scale |-> {A("MEASURE"), A("mA_4_20"), A("V_1_5")},
     endpoints |-> {A("MEASURE")}]

\* a call record before its fields are filled in
NoCall ==
    [op |-> "none", cls |-> "none", value |-> None, unit |-> NoUnit,
     low |-> None, hi |-> None, self |-> 0, other |-> 0,
     err |-> NoExc, res |-> NotAMeasure, ret |-> FALSE]

\* no converter constructed, no call made
NoBench ==
    [conv |-> Raise("no converter"), op |-> "none", args |-> <<>>,
     arg |-> None, precision |-> DefaultPrecision, origin |-> None,
     out |-> Raise("no call")]

Init ==
    /\ client \in Clients
    /\ heap = <<>>
    /\ eu = InitialEu
    /\ last = NoCall
    /\ bench = NoBench
    /\ thread = <<>>

\* the object a call returned is kept while the client has room for it
Keep(h, out) ==
    IF out.err = NoExc /\ Len(h) < MaxInst THEN Append(h, out.val) ELSE h

Returned(out) == IF out.err = NoExc THEN out.val ELSE NotAMeasure

\* operand of a binary operator: an object of the heap, or a non-Measure
Operand(j) == IF j = 0 THEN NotAMeasure ELSE heap[j]

\* the heap after a call left the attributes s in object i and o in object j
Touched(i, s, j, o) ==
    [k \in 1..Len(heap) |->
        IF k = i THEN s ELSE IF k = j THEN o ELSE heap[k]]

\* m = cls(value, unit)
Construct(cls, value, unit) ==
    /\ last = NoCall
    /\ \E out \in {New(cls, value, unit)} :
        /\ heap' = Keep(heap, out)
        /\ last' = [NoCall EXCEPT !.op = "new", !.cls = cls, !.value = value,
                                 !.unit = unit, !.err = out.err,
                                 !.res = Returned(out)]
        /\ UNCHANGED <<client, thread, eu, bench>>

\* m = AnalogSensorMeasure(value, unit, low, hi, label)
ConstructAnalog(value, unit, low, hi, label) ==
    /\ last = NoCall
    /\ \E r \in {NewAnalog(value, unit, low, hi, label, eu)} :
        /\ heap' = Keep(heap, r.out)
        /\ eu' = r.eu
        /\ last' = [NoCall EXCEPT !.op = "new", !.cls = "AnalogSensorMeasure",
                                 !.value = value, !.unit = unit, !.low = low,
                                 !.hi = hi, !.err = r.out.err,
                                 !.res = Returned(r.out)]
        /\ UNCHANGED <<client, thread, bench>>

\* m = heap[i].convert_to(unit)
ConvertTo(i, unit) ==
    /\ last = NoCall
    /\ \E r \in {convert_to(heap[i], unit, eu)} :
        /\ heap' = Keep(Touched(i, r.self, 0, NotAMeasure), r.out)
        /\ eu' = r.eu
        /\ last' = [NoCall EXCEPT !.op = "convert_to", !.self = i,
                                 !.unit = unit, !.err = r.out.err,
                                 !.res = Returned(r.out)]
        /\ UNCHANGED <<client, thread, bench>>

\* m = heap[i] + other
Add(i, j) ==
    /\ last = NoCall
    /\ \E r \in {__add__(heap[i], Operand(j), eu)} :
        /\ heap' = Keep(Touched(i, r.self, j, r.other), r.out)
        /\ eu' = r.eu
        /\ last' = [NoCall EXCEPT !.op = "add", !.self = i, !.other = j,
                                 !.err = r.out.err, !.res = Returned(r.out)]
        /\ UNCHANGED <<client, thread, bench>>

\* m = heap[i] - other
Sub(i, j) ==
    /\ last = NoCall
    /\ \E r \in {__sub__(heap[i], Operand(j), eu)} :
        /\ heap' = Keep(Touched(i, r.self, j, r.other), r.out)
        /\ eu' = r.eu
        /\ last' = [NoCall EXCEPT !.op = "sub", !.self = i, !.other = j,
                                 !.err = r.out.err, !.res = Returned(r.out)]
        /\ UNCHANGED <<client, thread, bench>>

\* heap[i] == other
Eq(i, j) ==
    /\ last = NoCall
    /\ last' = [NoCall EXCEPT !.op = "eq", !.self = i, !.other = j,
                             !.ret = __eq__(heap[i], Operand(j))]
    /\ UNCHANGED <<client, thread, heap, eu, bench>>

\* str(heap[i])
Str(i) ==
    /\ last = NoCall
    /\ last' = [NoCall EXCEPT !.op = "str", !.self = i,
                             !.ret = __str__(heap[i], eu)]
    /\ UNCHANGED <<client, thread, heap, eu, bench>>

\* the client is done with what the last call returned or raised; the objects
\* it keeps stay on the heap
Forget ==
    /\ last # NoCall
    /\ last' = NoCall
    /\ UNCHANGED <<client, thread, heap, eu, bench>>

Next ==
    \/ \E in \in MeasureInputs[client] : Construct(in[1], in[2], in[3])
    \/ \E in \in AnalogInputs[client] :
           ConstructAnalog(in[1], in[2], in[3], in[4], in[5])
    \/ \E i \in 1..Len(heap), u \in TargetUnits[client] : ConvertTo(i, u)
    \/ \E i \in 1..Len(heap), j \in 0..Len(heap) : Add(i, j)
    \/ \E i \in 1..Len(heap), j \in 0..Len(heap) : Sub(i, j)
    \/ \E i \in 1..Len(heap), j \in 0..Len(heap) : Eq(i, j)
    \/ \E i \in 1..Len(heap) : Str(i)
    \/ Forget

Spec == Init /\ [][Next]_vars

\* ------------------------------------------------------------------------
\* A program that constructs one converter and calls it
\* ------------------------------------------------------------------------

\* arguments (from_base_coeff, from_base_offset, base_low, base_hi) of the
\* LinearConverter constructions
LinearInputs ==
    { <<Dec(18, -1), F(32), None, None>>,
      <<Dec(18, -1), F(32), F(-50), F(150)>>,
      <<Dec(16, -2), F(4), F(0), F(100)>>,
      <<F(-1), F(0), F(0), F(10)>>,
      <<F(1), F(0), Dec(125, -3), F(10)>>,
      <<F(-2), F(100), None, None>>,
      <<F(0), F(5), None, None>>,
      <<F(0), F(5), F(10), F(0)>>,
      <<Dec(18, -1), F(32), F(10), F(0)>> }

\* arguments (from_base_coeff, base_low, base_hi) of the MultConverter
\* constructions
MultInputs ==
    { <<F(42), None, None>>,
      <<F(42), F(0), F(50)>>,
      <<Dec(-5, -1), F(-10), F(10)>>,
      <<F(0), F(0), F(50)>>,
      <<F(0), None, None>> }

\* the resistance converters constructed: kind, R0, A, B, C, D, bounds
ResistInputs ==
    { <<"Pt", F(100), Dec(39083, -7), Dec(-5775, -10), Dec(-4183, -15), D_Pt,
        F(-200), F(850)>>,
      <<"Cu", F(100), Dec(428, -5), Dec(-62032, -11), Dec(85154, -14), D_Cu,
        F(-180), F(200)>>,
      <<"Ni", F(100), Dec(54963, -7), Dec(67556, -10), Dec(92004, -13), D_Ni,
        F(-60), F(180)>>,
      <<"Pt", F(100), Dec(39083, -7), Dec(-5775, -10), Dec(-4183, -15), D_Pt,
        None, None>>,
      <<"Ni", F(100), Dec(54963, -7), Dec(67556, -10), Dec(92004, -13), D_Ni,
        None, None>>,
      <<"Ni", F(1000), Dec(54963, -7), Dec(67556, -10), Dec(92004, -13), D_Ni,
        F(-60), F(180)>>,
      <<"Pt", F(100), Dec(39690, -7), Dec(-5841, -10), Dec(-4330, -15), D_P,
        F(-200), F(850)>>,
      <<"Pt", F(50), Dec(39690, -7), Dec(-5841, -10), Dec(-4330, -15), D_P,
        F(-200), F(850)>>,
      <<"Pt", F(50), Dec(39083, -7), Dec(-5775, -10), Dec(-4183, -15), D_Pt,
        F(-200), F(850)>> }

\* the tables of the tests: pairs of a temperature in C and the resistance in
\* Ohm tabulated for it
PT_100_MEASURE_POINTS ==
    { <<F(-200), Dec(1852, -2)>>, <<F(-100), Dec(6026, -2)>>,
      <<F(0), Dec(10000, -2)>>, <<F(50), Dec(11940, -2)>>,
      <<F(100), Dec(13851, -2)>>, <<F(150), Dec(15733, -2)>>,
      <<F(200), Dec(17586, -2)>>, <<F(500), Dec(28098, -2)>>,
      <<F(850), Dec(39048, -2)>> }

CU_MEASURE_POINTS ==
    { <<F(-180), Dec(2053, -2)>>, <<F(-100), Dec(5654, -2)>>,
      <<F(0), Dec(10000, -2)>>, <<F(50), Dec(12140, -2)>>,
      <<F(100), Dec(14280, -2)>>, <<F(150), Dec(16420, -2)>>,
      <<F(200), Dec(18560, -2)>> }

NI_MEASURE_POINTS ==
    { <<F(-60), Dec(6945, -2)>>, <<F(0), Dec(10000, -2)>>,
      <<F(50), Dec(12917, -2)>>, <<F(100), Dec(16172, -2)>>,
      <<F(150), Dec(19868, -2)>>, <<F(180), Dec(22321, -2)>> }

\* the table of the converter c, if the tests have one for it
MeasurePoints(c) ==
    CASE c.kind = "Pt" /\ c.R0 = F(100) /\ c.A = Dec(39083, -7) ->
             PT_100_MEASURE_POINTS
      [] c.kind = "Cu" /\ c.R0 = F(100) -> CU_MEASURE_POINTS
      [] c.kind = "Ni" /\ c.R0 = F(100) -> NI_MEASURE_POINTS
      [] OTHER -> {}

\* distances from a bound at which the calls probe it
Offsets ==
    {F(-1), Dec(-4, -2), Dec(-2, -2), Dec(-1, -2), Dec(-4, -3), F(0),
     Dec(4, -3), Dec(1, -2), Dec(2, -2), Dec(4, -2), F(1)}

\* arguments passed to from_base: around each declared base bound, and a few
\* fixed values
BaseProbes(c) ==
    {F(-40), F(5), F(100)}
    \cup {p[1] : p \in MeasurePoints(c)}
    \cup (IF c.base_low = None THEN {}
          ELSE {FAdd(c.base_low, d) : d \in Offsets})
    \cup (IF c.base_hi = None THEN {}
          ELSE {FAdd(c.base_hi, d) : d \in Offsets})

\* arguments passed to to_base: around each converted bound, and a few fixed
\* values
ConvertedProbes(c) ==
    {F(-20), F(-5), F(20), F(120), F(800)}
    \cup {p[2] : p \in MeasurePoints(c)}
    \cup (IF c.converted_low = None THEN {}
          ELSE {FAdd(c.converted_low, d) : d \in Offsets})
    \cup (IF c.converted_hi = None THEN {}
          ELSE {FAdd(c.converted_hi, d) : d \in Offsets})

\* the arguments of the calls on the converter held, if one is held
Probes ==
    IF bench.conv.err = NoExc
    THEN [base |-> BaseProbes(bench.conv.val),
          converted |-> ConvertedProbes(bench.conv.val)]
    ELSE [base |-> {}, converted |-> {}]

ConvInit ==
    /\ client = "converters"
    /\ heap = <<>>
    /\ eu = InitialEu
    /\ last = NoCall
    /\ bench = NoBench
    /\ thread = <<>>

\* c = LinearConverter(from_base_coeff, from_base_offset, base_low, base_hi)
MakeLinear(from_base_coeff, from_base_offset, base_low, base_hi) ==
    /\ bench.op = "none"
    /\ bench' = [NoBench EXCEPT
                    !.conv = LinearConverter(from_base_coeff, from_base_offset,
                                             base_low, base_hi),
                    !.op = "LinearConverter",
                    !.args = <<from_base_coeff, from_base_offset, base_low,
                               base_hi>>]
    /\ UNCHANGED <<client, thread, heap, eu, last>>

\* c = MultConverter(from_base_coeff, base_low, base_hi)
MakeMult(from_base_coeff, base_low, base_hi) ==
    /\ bench.op = "none"
    /\ bench' = [NoBench EXCEPT
                    !.conv = MultConverter(from_base_coeff, base_low, base_hi),
                    !.op = "MultConverter",
                    !.args = <<from_base_coeff, base_low, base_hi>>]
    /\ UNCHANGED <<client, thread, heap, eu, last>>

\* c = PtResistConverter(...), CuResistConverter(...) or NiResistConverter(...)
MakeResist(kind, R0, A_, B, C, D, base_low, base_hi) ==
    /\ bench.op = "none"
    /\ bench' = [NoBench EXCEPT
                    !.conv =
                        CASE kind = "Pt" ->
                                 PtResistConverter(R0, A_, B, C, D,
                                                   base_low, base_hi)
                          [] kind = "Cu" ->
                                 CuResistConverter(R0, A_, B, C, D,
                                                   base_low, base_hi)
                          [] kind = "Ni" ->
                                 NiResistConverter(R0, A_, B, C, D,
                                                   base_low, base_hi),
                    !.op = "ResistConverter",
                    !.args = <<kind, R0, A_, B, C, D, base_low, base_hi>>]
    /\ UNCHANGED <<client, thread, heap, eu, last>>

\* y = c.from_base(x)
FromBase(x) ==
    /\ bench.conv.err = NoExc
    /\ bench.out = NoBench.out
    /\ bench' = [bench EXCEPT
                    !.op = "from_base", !.arg = x, !.origin = None,
                    !.out = from_base(bench.conv.val, x, DefaultPrecision)]
    /\ UNCHANGED <<client, thread, heap, eu, last>>

\* x = c.to_base(y)
ToBase(y) ==
    /\ bench.conv.err = NoExc
    /\ bench.out = NoBench.out
    /\ bench' = [bench EXCEPT
                    !.op = "to_base", !.arg = y, !.origin = None,
                    !.out = to_base(bench.conv.val, y, DefaultPrecision)]
    /\ UNCHANGED <<client, thread, heap, eu, last>>

\* the precision arguments passed explicitly, other than the default
Precisions == {1, 3}

\* y = c.from_base(x, precision)
FromBaseRounded(x, precision) ==
    /\ bench.conv.err = NoExc
    /\ bench.out = NoBench.out
    /\ bench' = [bench EXCEPT
                    !.op = "from_base(precision)", !.arg = x,
                    !.precision = precision, !.origin = None,
                    !.out = from_base(bench.conv.val, x, precision)]
    /\ UNCHANGED <<client, thread, heap, eu, last>>

\* x = c.to_base(y, precision)
ToBaseRounded(y, precision) ==
    /\ bench.conv.err = NoExc
    /\ bench.out = NoBench.out
    /\ bench' = [bench EXCEPT
                    !.op = "to_base(precision)", !.arg = y,
                    !.precision = precision, !.origin = None,
                    !.out = to_base(bench.conv.val, y, precision)]
    /\ UNCHANGED <<client, thread, heap, eu, last>>

\* c.to_base(c.from_base(x)): the second call, on the value the first returned
ToBaseOfResult ==
    /\ bench.op = "from_base"
    /\ bench.origin = None
    /\ bench.out.err = NoExc
    /\ bench' = [bench EXCEPT
                    !.op = "to_base", !.arg = bench.out.val,
                    !.origin = bench.arg,
                    !.out = to_base(bench.conv.val, bench.out.val,
                                    DefaultPrecision)]
    /\ UNCHANGED <<client, thread, heap, eu, last>>

\* c.from_base(c.to_base(y)): the second call, on the value the first returned
FromBaseOfResult ==
    /\ bench.op = "to_base"
    /\ bench.origin = None
    /\ bench.out.err = NoExc
    /\ bench' = [bench EXCEPT
                    !.op = "from_base", !.arg = bench.out.val,
                    !.origin = bench.arg,
                    !.out = from_base(bench.conv.val, bench.out.val,
                                      DefaultPrecision)]
    /\ UNCHANGED <<client, thread, heap, eu, last>>

\* the program is done with what the last call returned or raised and keeps
\* the converter
ForgetResult ==
    /\ bench.out # NoBench.out
    /\ bench' = [bench EXCEPT !.op = "held", !.arg = None,
                              !.precision = DefaultPrecision,
                              !.origin = None, !.out = NoBench.out]
    /\ UNCHANGED <<client, thread, heap, eu, last>>

ConvNext ==
    \/ \E in \in LinearInputs : MakeLinear(in[1], in[2], in[3], in[4])
    \/ \E in \in MultInputs : MakeMult(in[1], in[2], in[3])
    \/ \E in \in ResistInputs :
           MakeResist(in[1], in[2], in[3], in[4], in[5], in[6], in[7], in[8])
    \/ \E x \in Probes.base : FromBase(x)
    \/ \E y \in Probes.converted : ToBase(y)
    \/ \E x \in Probes.base, precision \in Precisions :
           FromBaseRounded(x, precision)
    \/ \E y \in Probes.converted, precision \in Precisions :
           ToBaseRounded(y, precision)
    \/ ToBaseOfResult
    \/ FromBaseOfResult
    \/ ForgetResult

ConvSpec == ConvInit /\ [][ConvNext]_vars

\* ------------------------------------------------------------------------
\* Properties of the Measure classes, checked under Spec
\* ------------------------------------------------------------------------

\* the registry Measure.__init__ builds for the arguments of the last
\* constructor call
LastRegistry ==
    _get_converters([BlankMeasure(last.cls) EXCEPT
                        !.measure_scale_low = last.hi,
                        !.measure_scale_hi = last.low])

\* the coefficient _get_converters computes for the MEASURE converter of an
\* AnalogSensorMeasure constructed with the endpoints low and hi
Span(low, hi) == FDiv(FSub(hi, low), F(100))

\* round(value, 2) is below low or above hi, each bound None or a number
Outside(value, low, hi) ==
    \/ low # None /\ FLt(FRound(value, DefaultPrecision), low)
    \/ hi # None /\ FGt(FRound(value, DefaultPrecision), hi)

\* the comparison _check_limits makes: both sides rounded
OutsideRounded(value, low, hi) ==
    \/ low # None /\ FLt(FRound(value, DefaultPrecision),
                         FRound(low, DefaultPrecision))
    \/ hi # None /\ FGt(FRound(value, DefaultPrecision),
                        FRound(hi, DefaultPrecision))

\* the instance a successful constructor call returns
Constructed ==
    /\ last.err = NoExc
    /\ last.res.cls = last.cls
    /\ last.res.value = last.value
    /\ last.res.unit = last.unit
    /\ last.res.base_unit = BaseUnit[last.cls]
    /\ last.res.base_value =
           to_base(last.res._converters[last.unit], last.value,
                   DefaultPrecision).val

\* C1 as stated: a constructor call with a unit of its own class either
\* returns an instance whose base_value is registry[unit].to_base(value) and
\* whose base_unit is the base unit of the class, or raises the range
\* ValueError of the converter, the value rounded to 2 decimals lying outside
\* the converted bounds of the unit, and returns no instance.
C1_AsStated ==
    last.op = "new" =>
        \/ Constructed
        \/ /\ last.err \in RangeErrors
           /\ last.res = NotAMeasure
           /\ LastRegistry.err = NoExc
           /\ Outside(last.value,
                      LastRegistry.val[last.unit].converted_low,
                      LastRegistry.val[last.unit].converted_hi)

\* C1 (amended): a constructor call with a unit of its own class has one of
\* three outcomes.  When the registry cannot be built (AnalogSensorMeasure
\* whose MEASURE converter has a zero coefficient, as with equal scale
\* endpoints) it raises the zero-coefficient ValueError whatever the value.  Otherwise it raises the range ValueError exactly when
\* round(value, 2) is outside the converted bounds rounded to 2 decimals, and
\* then the rounded value is outside the bounds themselves.  Otherwise it
\* returns an instance whose base_value is registry[unit].to_base(value) and
\* whose base_unit is the base unit of the class.  No instance is returned on
\* failure.
C1_Construct ==
    last.op = "new" =>
        IF LastRegistry.err # NoExc
        THEN /\ last.cls = "AnalogSensorMeasure"
             /\ Span(last.low, last.hi) = F(0)
             /\ last.err = ErrCoeff
             /\ last.res = NotAMeasure
        ELSE IF OutsideRounded(last.value,
                               LastRegistry.val[last.unit].converted_low,
                               LastRegistry.val[last.unit].converted_hi)
        THEN /\ last.err \in RangeErrors
             /\ last.res = NotAMeasure
             /\ Outside(last.value,
                        LastRegistry.val[last.unit].converted_low,
                        LastRegistry.val[last.unit].converted_hi)
        ELSE Constructed

\* C1 witness: a constructor call that raised the range error of its unit
\* and left the client without an instance
C1_Witness ==
    /\ last.op = "new"
    /\ last.err \in RangeErrors
    /\ last.unit = R("Pt100_Ohm")
    /\ heap = <<>>

\* the receiver and the converter of the convert_to call a step makes
ConvertStep == last'.op = "convert_to"

Receiver == heap[last'.self]

Target == Receiver._converters[last'.unit]

\* C2 as stated: a successful convert_to(U) returns a new instance of the
\* class of the receiver, in unit U, whose value is
\* registry[U].from_base(base_value of the receiver) and whose base_value and
\* base_unit equal those of the receiver; converting to the unit of the
\* receiver returns the value of the receiver.
C2_AsStated ==
    [][ConvertStep /\ last'.err = NoExc =>
          /\ last'.res.cls = Receiver.cls
          /\ last'.res.unit = last'.unit
          /\ last'.res.value =
                 from_base(Target, Receiver.base_value, DefaultPrecision).val
          /\ last'.res.base_unit = Receiver.base_unit
          /\ last'.res.base_value = Receiver.base_value
          /\ (last'.unit = Receiver.unit =>
                  last'.res.value = Receiver.value)]_vars

\* C2 (amended): a successful convert_to(U) returns a new instance of the
\* class of the receiver, in unit U, whose value is
\* registry[U].from_base(base_value of the receiver), whose base_unit equals
\* that of the receiver and whose base_value is registry[U].to_base of the
\* new value: the round trip of the base value of the receiver through the
\* converter of U, not that base value itself.
C2_ConvertTo ==
    [][ConvertStep /\ last'.err = NoExc =>
          /\ last'.res.cls = Receiver.cls
          /\ last'.res.unit = last'.unit
          /\ last'.res.value =
                 from_base(Target, Receiver.base_value, DefaultPrecision).val
          /\ last'.res.base_unit = Receiver.base_unit
          /\ last'.res.base_value =
                 to_base(Target, last'.res.value, DefaultPrecision).val
          /\ last'.res.measure_scale_low = Receiver.measure_scale_low
          /\ last'.res.measure_scale_hi = Receiver.measure_scale_hi]_vars

\* C2 witness: a convert_to call returned an instance whose base_value is
\* not the base_value of its receiver
C2_Witness ==
    /\ last.op = "convert_to"
    /\ last.err = NoExc
    /\ last.res.unit = last.unit
    /\ last.res.base_value # heap[last.self].base_value

\* the operands of the a + b or a - b a step evaluates
ArithStep == last'.op \in {"add", "sub"}

Left == heap[last'.self]

Right == Operand(last'.other)

\* C3 as stated: for each of the five classes, a + b and a - b on two
\* instances of the class return an instance of the class, in the unit of a,
\* whose base_value is the sum (difference) of the base values; a result
\* outside the bounds of the unit of a is left to the range error.
C3_AddSub ==
    [][ArithStep /\ Right.cls = Left.cls /\ last'.err \notin RangeErrors =>
          /\ last'.err = NoExc
          /\ last'.res.cls = Left.cls
          /\ last'.res.unit = Left.unit
          /\ last'.res.base_value =
                 IF last'.op = "add"
                 THEN FAdd(Left.base_value, Right.base_value)
                 ELSE FSub(Left.base_value, Right.base_value)]_vars

\* C4: a + b and a - b with b not an instance of the class of a raise the
\* TypeError of the type check, return no instance and leave the operands,
\* the other objects and the unit labels as they were.
C4_TypeError ==
    [][ArithStep /\ Right.cls # Left.cls =>
          /\ last'.err = ErrType
          /\ last'.res = NotAMeasure
          /\ heap' = heap
          /\ eu' = eu]_vars

\* C4 witness: a Temperature was added to a Pressure and the call raised
C4_Witness ==
    /\ last.op = "add"
    /\ last.other # 0
    /\ heap[last.self].cls = "Temperature"
    /\ heap[last.other].cls = "Pressure"
    /\ last.err = ErrType

\* C5 as stated: convert_to fails with the range error whenever the base
\* value of the receiver lies outside the base bounds of the converter of
\* the target unit.
C5_AsStated ==
    [][/\ ConvertStep
       /\ last'.unit \in DOMAIN Receiver._converters
       /\ \/ Target.base_low # None
             /\ FLt(Receiver.base_value, Target.base_low)
          \/ Target.base_hi # None
             /\ FGt(Receiver.base_value, Target.base_hi)
       => last'.err \in RangeErrors]_vars

\* C5 (amended): convert_to fails with the range error whenever the base
\* value of the receiver, rounded to 2 decimals, lies outside the base
\* bounds of the converter of the target unit, themselves rounded to 2
\* decimals; it returns no instance and leaves the receiver and every other
\* object unchanged.
C5_RangeError ==
    [][/\ ConvertStep
       /\ last'.unit \in DOMAIN Receiver._converters
       /\ OutsideRounded(Receiver.base_value, Target.base_low, Target.base_hi)
       => /\ last'.err \in RangeErrors
          /\ last'.res = NotAMeasure
          /\ heap' = heap]_vars

\* C5 witness: ThermoResistor(500, C).convert_to(Cu100_Ohm) raised
C5_Witness ==
    /\ last.op = "convert_to"
    /\ last.unit = R("Cu100_Ohm")
    /\ heap[last.self].unit = R("C")
    /\ heap[last.self].value = F(500)
    /\ last.err = ErrHi

\* C6: no call changes the value, unit, base_value or base_unit of an
\* existing instance; what a call returns is one more object.
C6_Immutable ==
    [][/\ Len(heap') \in {Len(heap), Len(heap) + 1}
       /\ \A k \in 1..Len(heap) :
              /\ heap'[k].value = heap[k].value
              /\ heap'[k].unit = heap[k].unit
              /\ heap'[k].base_value = heap[k].base_value
              /\ heap'[k].base_unit = heap[k].base_unit]_vars

\* C6 witness: the sum of two objects was returned while both are still held
C6_Witness ==
    /\ last.op = "add"
    /\ last.err = NoExc
    /\ last.other # 0
    /\ last.other # last.self
    /\ Len(heap) = MaxInst

\* C7: a == b is true exactly when b is an instance of the class of a and
\* the base values are equal; for any other b it is false, and no
\* comparison raises.
C7_Equality ==
    last.op = "eq" =>
        /\ last.err = NoExc
        /\ last.ret \in BOOLEAN
        /\ last.ret =
               (/\ Operand(last.other).cls = heap[last.self].cls
                /\ Operand(last.other).base_value =
                       heap[last.self].base_value)

\* C7 witness: two Temperatures in different units compared equal
C7_Witness ==
    /\ last.op = "eq"
    /\ last.other # 0
    /\ heap[last.self].unit # Operand(last.other).unit
    /\ heap[last.self].value # Operand(last.other).value
    /\ last.ret = TRUE

\* a + b and b + a for two held objects of one class
BothSums(a, b) ==
    [ab |-> __add__(a, b, eu).out, ba |-> __add__(b, a, eu).out]

\* the operands <<a, b>> of the last a + b on two objects of one class
SameClassPairs ==
    IF /\ last.op = "add"
       /\ last.other # 0
       /\ heap[last.self].cls = Operand(last.other).cls
    THEN {<<last.self, last.other>>}
    ELSE {}

\* C8 as stated: after a + b was evaluated, a + b and b + a both succeed or both fail; when both
\* succeed they compare equal, the first in the unit of a and the second in
\* the unit of b.
C8_AsStated ==
    \A p \in SameClassPairs :
        \A s \in {BothSums(heap[p[1]], heap[p[2]])} :
            /\ (s.ab.err = NoExc) = (s.ba.err = NoExc)
            /\ s.ab.err = NoExc =>
                   /\ __eq__(s.ab.val, s.ba.val)
                   /\ s.ab.val.unit = heap[p[1]].unit
                   /\ s.ba.val.unit = heap[p[2]].unit

\* C8 (amended): after a + b was evaluated: a + b, when it succeeds, is in the unit of a and b + a, when
\* it succeeds, in the unit of b; each has for base value the round trip of
\* the one sum a.base_value + b.base_value through the converter of its own
\* unit.  When a and b are in the same unit the two calls have the same
\* outcome and equal results; in different units one can raise the range
\* error of its unit while the other succeeds.
C8_Commute ==
    \A p \in SameClassPairs :
        \A s \in {BothSums(heap[p[1]], heap[p[2]])} :
            /\ s.ab.err = NoExc =>
                   /\ s.ab.val.unit = heap[p[1]].unit
                   /\ s.ab.val.base_value =
                          to_base(heap[p[1]]._converters[heap[p[1]].unit],
                                  s.ab.val.value, DefaultPrecision).val
                   /\ s.ab.val.value =
                          from_base(heap[p[1]]._converters[heap[p[1]].unit],
                                    FAdd(heap[p[2]].base_value,
                                         heap[p[1]].base_value),
                                    DefaultPrecision).val
            /\ heap[p[1]].unit = heap[p[2]].unit =>
                   /\ s.ab.err = s.ba.err
                   /\ s.ab.err = NoExc => __eq__(s.ab.val, s.ba.val)

\* C8 witness: b + a was evaluated and succeeded for two objects in different
\* units for which a + b raises the range error
C8_Witness ==
    /\ last.op = "add"
    /\ last.err = NoExc
    /\ last.other # 0
    /\ heap[last.self].unit # Operand(last.other).unit
    /\ __add__(Operand(last.other), heap[last.self], eu).out.err
           \in RangeErrors

\* ------------------------------------------------------------------------
\* Properties of the converters, checked under ConvSpec
\* ------------------------------------------------------------------------

\* the tolerance the repository's tests compare converted values with
Tolerance == Dec(1, -3)

\* a and b differ by no more than the tolerance
Close(a, b) == FLe(FAbs(FSub(a, b)), Tolerance)

\* the converter the program holds
Held == bench.conv.val

\* x is inside the declared base domain of c (a bound of None is no bound)
InDomain(c, x) ==
    /\ c.base_low = None \/ FLe(c.base_low, x)
    /\ c.base_hi = None \/ FLe(x, c.base_hi)

\* x is at least eps outside the declared base domain of c
OutsideBy(c, x, eps) ==
    \/ FLe(x, FSub(c.base_low, eps))
    \/ FGe(x, FAdd(c.base_hi, eps))

\* both base bounds of the converter held are declared
Bounded ==
    /\ bench.conv.err = NoExc
    /\ Held.base_low # None
    /\ Held.base_hi # None

\* the last call was c.from_base(x) on an argument of the program
FromBaseCall == bench.op = "from_base" /\ bench.origin = None

\* the last call was c.to_base(y) on an argument of the program
ToBaseCall == bench.op = "to_base" /\ bench.origin = None

\* the last call was the to_base of c.to_base(c.from_base(x))
BackOfForward == bench.op = "to_base" /\ bench.origin # None

\* the last call was the from_base of c.from_base(c.to_base(v))
ForwardOfBack == bench.op = "from_base" /\ bench.origin # None

\* C9 as stated: for a LinearConverter or MultConverter (coefficient non-zero,
\* of either sign, bounds declared or not) and x inside the declared base
\* domain, from_base(x) succeeds and to_base(from_base(x)) succeeds and
\* returns x within the tolerance; and from_base(to_base(v)) returns v within
\* the tolerance when to_base(v) is inside the declared base domain.
C9_RoundTrip ==
    (bench.conv.err = NoExc /\ Held.kind = "Linear") =>
        /\ (FromBaseCall /\ InDomain(Held, bench.arg)) => bench.out.err = NoExc
        /\ (BackOfForward /\ InDomain(Held, bench.origin)) =>
               /\ bench.out.err = NoExc
               /\ Close(bench.out.val, bench.origin)
        /\ (ForwardOfBack /\ InDomain(Held, bench.arg)) =>
               /\ bench.out.err = NoExc
               /\ Close(bench.out.val, bench.origin)

\* C10 as stated: for a converter with both base bounds declared,
\* from_base(x) raises the range error for every x below base_low or above
\* base_hi, from_base(base_low) and from_base(base_hi) succeed, and
\* to_base(converted_low - 1) and to_base(converted_hi + 1) raise the range
\* error.
C10_AsStated ==
    Bounded =>
        /\ (FromBaseCall /\ ~InDomain(Held, bench.arg)) =>
               bench.out.err \in RangeErrors
        /\ (FromBaseCall /\ bench.arg \in {Held.base_low, Held.base_hi}) =>
               bench.out.err = NoExc
        /\ (ToBaseCall /\ bench.arg \in {FSub(Held.converted_low, F(1)),
                                         FAdd(Held.converted_hi, F(1))}) =>
               bench.out.err \in RangeErrors

\* C10 (amended): for a converter with both base bounds declared,
\* from_base(x) raises the range error for every x at least 0.02 below
\* base_low or above base_hi, from_base(base_low) and from_base(base_hi)
\* succeed, and to_base(converted_low - 1) and to_base(converted_hi + 1)
\* raise the range error.
C10_Boundary ==
    Bounded =>
        /\ (FromBaseCall /\ OutsideBy(Held, bench.arg, Dec(2, -2))) =>
               bench.out.err \in RangeErrors
        /\ (FromBaseCall /\ bench.arg \in {Held.base_low, Held.base_hi}) =>
               bench.out.err = NoExc
        /\ (ToBaseCall /\ bench.arg \in {FSub(Held.converted_low, F(1)),
                                         FAdd(Held.converted_hi, F(1))}) =>
               bench.out.err \in RangeErrors

\* C10 witness: from_base was called 0.02 below the declared base_low and
\* raised "Value must be >= low_limit"
C10_Witness ==
    /\ Bounded
    /\ FromBaseCall
    /\ bench.arg = FSub(Held.base_low, Dec(2, -2))
    /\ bench.out.err = ErrLow

\* the last call constructed, or failed to construct, a LinearConverter or a
\* MultConverter; its first argument is from_base_coeff
LinearCall == bench.op \in {"LinearConverter", "MultConverter"}

\* C11: LinearConverter(0, ...) and MultConverter(0, ...) raise
\* "from_base_coeff must be non zero!" whatever the offset and the bounds,
\* also with bounds for which Converter.__init__ would raise the range
\* error, and no converter held has a zero coefficient.
C11_ZeroCoeff ==
    /\ (LinearCall /\ bench.args[1] = F(0)) => bench.conv.err = ErrCoeff
    /\ (bench.conv.err = NoExc /\ Held.kind = "Linear") =>
           Held.from_base_coeff # F(0)

\* C11 witness: LinearConverter(0, 5, 10, 0) raised the coefficient error;
\* with the coefficient 1.8 the same bounds raise the range error
C11_Witness ==
    /\ bench.op = "LinearConverter"
    /\ bench.args = <<F(0), F(5), F(10), F(0)>>
    /\ bench.conv.err = ErrCoeff
    /\ LinearConverter(Dec(18, -1), F(32), F(10), F(0)).err \in RangeErrors

\* ------------------------------------------------------------------------
\* A program whose threads each construct, convert and format one Measure
\* ------------------------------------------------------------------------

Threads == {1, 2, 3}

\* what each thread does: m = cls(value, unit) or, with cls
\* AnalogSensorMeasure, m = cls(value, unit, low, hi, label); then
\* d = m.convert_to(target); then str(d)
ThreadInputs ==
    [t \in Threads |->
        CASE t = 1 ->
                 { [cls |-> "AnalogSensorMeasure", value |-> F(12),
                    unit |-> A("mA_4_20"), low |-> F(0), hi |-> F(100),
                    label |-> "kPa", target |-> MEASURE],
                   [cls |-> "AnalogSensorMeasure", value |-> F(100),
                    unit |-> A("persent"), low |-> F(0), hi |-> F(100),
                    label |-> "kPa", target |-> MEASURE] }
          [] t = 2 ->
                 { [cls |-> "AnalogSensorMeasure", value |-> F(50),
                    unit |-> A("persent"), low |-> F(50), hi |-> F(250),
                    label |-> "bar", target |-> MEASURE],
                   [cls |-> "AnalogSensorMeasure", value |-> F(50),
                    unit |-> A("persent"), low |-> F(50), hi |-> F(250),
                    label |-> "bar", target |-> A("mA_4_20")] }
          [] t = 3 ->
                 { [cls |-> "Temperature", value |-> F(10), unit |-> T("C"),
                    low |-> None, hi |-> None, label |-> "",
                    target |-> T("K")] }]

\* a thread that has not started: its input, its objects m and d, the label
\* convert_to has read and the string str(d) returned
Idle(in) ==
    [pc |-> "start", in |-> in, m |-> NotAMeasure, label |-> "",
     value |-> None, d |-> NotAMeasure, seen |-> <<>>]

ThreadInit ==
    /\ client = "threads"
    /\ heap = <<>>
    /\ eu = InitialEu
    /\ last = NoCall
    /\ bench = NoBench
    /\ thread \in [Threads -> UNION {{Idle(in) : in \in ThreadInputs[t]}
                                     : t \in Threads}]
    /\ \A t \in Threads : thread[t].in \in ThreadInputs[t]

\* m = cls(...): AnalogSensorMeasure.__init__ assigns the label of the shared
\* MEASURE member; the rest of the construction touches the new object only
ThreadConstruct(t) ==
    /\ thread[t].pc = "start"
    /\ \E r \in {IF thread[t].in.cls = "AnalogSensorMeasure"
                 THEN NewAnalog(thread[t].in.value, thread[t].in.unit,
                                thread[t].in.low, thread[t].in.hi,
                                thread[t].in.label, eu)
                 ELSE [out |-> New(thread[t].in.cls, thread[t].in.value,
                                   thread[t].in.unit),
                       eu |-> eu]} :
        /\ eu' = r.eu
        /\ thread' = [thread EXCEPT ![t].pc = "built", ![t].m = r.out.val]
    /\ UNCHANGED <<client, heap, last, bench>>

\* the first statements of AnalogSensorMeasure.convert_to: the converted
\* value, and the label read from the shared MEASURE member
ThreadReadLabel(t) ==
    /\ thread[t].pc = "built"
    /\ thread[t].m.cls = "AnalogSensorMeasure"
    /\ thread' = [thread EXCEPT
                     ![t].pc = "read",
                     ![t].value =
                         from_base(thread[t].m._converters[thread[t].in.target],
                                   thread[t].m.base_value,
                                   DefaultPrecision).val,
                     ![t].label = eu[MEASURE]]
    /\ UNCHANGED <<client, heap, eu, last, bench>>

\* the return statement of AnalogSensorMeasure.convert_to: the constructor
\* assigns the label read before to the shared MEASURE member
ThreadDerive(t) ==
    /\ thread[t].pc = "read"
    /\ \E r \in {NewAnalog(thread[t].value, thread[t].in.target,
                           thread[t].m.measure_scale_hi,
                           thread[t].m.measure_scale_low,
                           thread[t].label, eu)} :
        /\ eu' = r.eu
        /\ thread' = [thread EXCEPT ![t].pc = "derived", ![t].d = r.out.val]
    /\ UNCHANGED <<client, heap, last, bench>>

\* d = m.convert_to(target) of Measure, which reads no shared object that is
\* ever assigned
ThreadConvert(t) ==
    /\ thread[t].pc = "built"
    /\ thread[t].m.cls # "AnalogSensorMeasure"
    /\ thread' = [thread EXCEPT
                     ![t].pc = "derived",
                     ![t].d = convert_to(thread[t].m, thread[t].in.target,
                                         eu).out.val]
    /\ UNCHANGED <<client, heap, eu, last, bench>>

\* str(d)
ThreadFormat(t) ==
    /\ thread[t].pc = "derived"
    /\ thread' = [thread EXCEPT ![t].pc = "done",
                                ![t].seen = __str__(thread[t].d, eu)]
    /\ UNCHANGED <<client, heap, eu, last, bench>>

ThreadNext ==
    \/ \E t \in Threads : ThreadConstruct(t)
    \/ \E t \in Threads : ThreadReadLabel(t)
    \/ \E t \in Threads : ThreadDerive(t)
    \/ \E t \in Threads : ThreadConvert(t)
    \/ \E t \in Threads : ThreadFormat(t)

ThreadSpec == ThreadInit /\ [][ThreadNext]_vars

\* ------------------------------------------------------------------------
\* Claims about AnalogSensorMeasure, checked in Spec
\* ------------------------------------------------------------------------

\* the step is a successful call AnalogSensorMeasure(value, unit, low, hi,
\* label)
AnalogConstructStep ==
    /\ last'.op = "new"
    /\ last'.cls = "AnalogSensorMeasure"
    /\ last'.err = NoExc

\* the step is a successful convert_to call on an AnalogSensorMeasure
AnalogConvertStep ==
    /\ ConvertStep
    /\ Receiver.cls = "AnalogSensorMeasure"
    /\ last'.err = NoExc

\* the endpoints the caller supplied as measure_scale_low and
\* measure_scale_hi: __init__ stores each under the name of the other
ScaleLow(m) == m.measure_scale_hi

ScaleHigh(m) == m.measure_scale_low

\* L + (H - L) * p / 100
Interpolated(L, H, p) == FAdd(L, FDiv(FMul(FSub(H, L), p), F(100)))

\* coeff * p + offset
Scaled(coeff, offset, p) == FAdd(FMul(coeff, p), offset)

\* C12: an AnalogSensorMeasure(p, persent, L, H, label) keeps the endpoints
\* the caller supplied, and its convert_to returns L + (H - L) * p / 100 in
\* MEASURE, 4 + 0.16 * p in mA_4_20, 0.2 * p in mA_0_20 and 1 + 0.04 * p in
\* V_1_5, within the 0.001 of the tests; 12 mA on a 4-20 mA sensor scaled
\* 0..100 converts to exactly 50.0.
C12_Scaling ==
    [][/\ AnalogConstructStep =>
              /\ ScaleLow(last'.res) = last'.low
              /\ ScaleHigh(last'.res) = last'.hi
       /\ (AnalogConvertStep /\ Receiver.unit = A("persent")) =>
              /\ last'.unit = MEASURE =>
                     Close(last'.res.value,
                           Interpolated(ScaleLow(Receiver),
                                        ScaleHigh(Receiver), Receiver.value))
              /\ last'.unit = A("mA_4_20") =>
                     Close(last'.res.value,
                           Scaled(Dec(16, -2), F(4), Receiver.value))
              /\ last'.unit = A("mA_0_20") =>
                     Close(last'.res.value,
                           Scaled(Dec(2, -1), F(0), Receiver.value))
              /\ last'.unit = A("V_1_5") =>
                     Close(last'.res.value,
                           Scaled(Dec(4, -2), F(1), Receiver.value))
       /\ (/\ AnalogConvertStep
           /\ Receiver.unit = A("mA_4_20")
           /\ Receiver.value = F(12)
           /\ ScaleLow(Receiver) = F(0)
           /\ ScaleHigh(Receiver) = F(100)
           /\ last'.unit = MEASURE) => last'.res.value = F(50)]_vars

\* C12 witness: 100 % of a sensor scaled 50..250 was converted to MEASURE and
\* gave 250
C12_Witness ==
    /\ last.op = "convert_to"
    /\ last.unit = MEASURE
    /\ heap[last.self].unit = A("persent")
    /\ heap[last.self].value = F(100)
    /\ ScaleLow(heap[last.self]) = F(50)
    /\ ScaleHigh(heap[last.self]) = F(250)
    /\ last.res.value = F(250)

\* the AnalogSensorMeasure objects the client keeps
AnalogKept ==
    { heap[i] : i \in { k \in 1..Len(heap) :
                          heap[k].cls = "AnalogSensorMeasure" } }

\* the last call was a successful AnalogSensorMeasure(value, unit, low, hi,
\* label)
AnalogConstructed ==
    /\ last.op = "new"
    /\ last.cls = "AnalogSensorMeasure"
    /\ last.err = NoExc

\* C13 as stated: the MEASURE converter of an AnalogSensorMeasure has the
\* coefficient (scale_low - scale_high) / 100 and the offset scale_high of the
\* endpoints the caller supplied, so 0 % maps to scale_high and 100 % to
\* scale_low.
C13_AsStated ==
    /\ AnalogConstructed =>
           /\ last.res._converters[MEASURE].from_base_coeff =
                  FDiv(FSub(last.low, last.hi), F(100))
           /\ last.res._converters[MEASURE].from_base_offset = last.hi
    /\ \A m \in AnalogKept :
           /\ Close(from_base(m._converters[MEASURE], F(0),
                              DefaultPrecision).val, ScaleHigh(m))
           /\ Close(from_base(m._converters[MEASURE], F(100),
                              DefaultPrecision).val, ScaleLow(m))

\* C13 (amended): the MEASURE converter of an AnalogSensorMeasure has the
\* coefficient (scale_high - scale_low) / 100 and the offset scale_low of the
\* endpoints the caller supplied, which the instance stores under
\* measure_scale_hi and measure_scale_low in this order, so 0 % maps to
\* scale_low and 100 % to scale_high: for scale_low < scale_high the MEASURE
\* value increases with the percent base value.
C13_Converter ==
    /\ AnalogConstructed =>
           /\ last.res.measure_scale_hi = last.low
           /\ last.res.measure_scale_low = last.hi
           /\ last.res._converters[MEASURE].from_base_coeff =
                  FDiv(FSub(last.hi, last.low), F(100))
           /\ last.res._converters[MEASURE].from_base_offset = last.low
    /\ \A m \in AnalogKept :
           /\ m._converters[MEASURE].kind = "Linear"
           /\ m._converters[MEASURE].from_base_coeff =
                  FDiv(FSub(ScaleHigh(m), ScaleLow(m)), F(100))
           /\ m._converters[MEASURE].from_base_offset = ScaleLow(m)
           /\ Close(from_base(m._converters[MEASURE], F(0),
                              DefaultPrecision).val, ScaleLow(m))
           /\ Close(from_base(m._converters[MEASURE], F(100),
                              DefaultPrecision).val, ScaleHigh(m))
           /\ FLt(ScaleLow(m), ScaleHigh(m)) =>
                  FGt(m._converters[MEASURE].from_base_coeff, F(0))

\* C13 witness: AnalogSensorMeasure(50, persent, 50, 250, "bar") returned an
\* instance whose MEASURE converter has coefficient 2 and offset 50
C13_Witness ==
    /\ AnalogConstructed
    /\ last.low = F(50)
    /\ last.hi = F(250)
    /\ last.res._converters[MEASURE].from_base_coeff = F(2)
    /\ last.res._converters[MEASURE].from_base_offset = F(50)

\* the labels the client supplied with the scale endpoints of m
SuppliedLabels(m) ==
    { in[5] : in \in { x \in AnalogInputs[client] :
                         x[3] = ScaleLow(m) /\ x[4] = ScaleHigh(m) } }

\* C14: str() of an AnalogSensorMeasure in the MEASURE unit is its value with
\* the label supplied when the instance it derives from was constructed,
\* whatever other instances were constructed since.
C14_OwnLabel ==
    (/\ last.op = "str"
     /\ heap[last.self].cls = "AnalogSensorMeasure"
     /\ heap[last.self].unit = MEASURE) =>
        /\ last.ret[1] = heap[last.self].value
        /\ last.ret[2] \in SuppliedLabels(heap[last.self])

\* m.convert_to(MEASURE).value
InMeasure(m) == convert_to(m, MEASURE, eu).out.val.value

\* C15 as stated: the instance convert_to derives from an AnalogSensorMeasure
\* m has the scale endpoints of m, and its value in MEASURE equals the value
\* of m in MEASURE.
C15_AsStated ==
    [][AnalogConvertStep =>
          /\ ScaleLow(last'.res) = ScaleLow(Receiver)
          /\ ScaleHigh(last'.res) = ScaleHigh(Receiver)
          /\ InMeasure(last'.res) = InMeasure(Receiver)]_vars

\* C15 (amended): the instance convert_to derives from an AnalogSensorMeasure
\* m has the scale endpoints of m and the MEASURE converter of m, whatever
\* other instances the client keeps, and its value in MEASURE is within 0.001
\* of the value of m in MEASURE: it is computed from the round trip of the
\* base value of m through the converter of the unit, which need not be the
\* base value of m.
C15_OwnScale ==
    [][AnalogConvertStep =>
          /\ ScaleLow(last'.res) = ScaleLow(Receiver)
          /\ ScaleHigh(last'.res) = ScaleHigh(Receiver)
          /\ last'.res._converters[MEASURE] = Receiver._converters[MEASURE]
          /\ InMeasure(last'.res) =
                 from_base(Receiver._converters[MEASURE],
                           last'.res.base_value, DefaultPrecision).val
          /\ Close(InMeasure(last'.res), InMeasure(Receiver))]_vars

\* C15 witness: the client keeps an instance scaled 0..7 and an instance at
\* 100 % scaled 50..250, and convert_to(V_1_5) of the second returned an
\* instance scaled 50..250 whose value in MEASURE is 250
C15_Witness ==
    /\ last.op = "convert_to"
    /\ last.unit = A("V_1_5")
    /\ last.err = NoExc
    /\ heap[last.self].value = F(100)
    /\ ScaleLow(last.res) = F(50)
    /\ ScaleHigh(last.res) = F(250)
    /\ InMeasure(last.res) = F(250)
    /\ \E m \in AnalogKept : ScaleHigh(m) = F(7)

\* the step is a construction, a convert_to, a + or a - that raised
FailedStep ==
    /\ last = NoCall
    /\ last'.op \in {"new", "convert_to", "add", "sub"}
    /\ last'.err # NoExc

\* C17: a construction, convert_to, + or - that raises leaves every object
\* the client keeps with the value, unit, base_value and string form it had
\* before the call.
C17_NoPartialState ==
    [][FailedStep =>
          /\ Len(heap') = Len(heap)
          /\ \A i \in 1..Len(heap) :
                 /\ heap'[i].value = heap[i].value
                 /\ heap'[i].unit = heap[i].unit
                 /\ heap'[i].base_value = heap[i].base_value
                 /\ __str__(heap'[i], eu') = __str__(heap[i], eu)]_vars

\* ------------------------------------------------------------------------
\* Claims about threads, checked in ThreadSpec
\* ------------------------------------------------------------------------

\* what a thread with the input in has at its end when it runs alone
Alone(in) ==
    LET n == IF in.cls = "AnalogSensorMeasure"
             THEN NewAnalog(in.value, in.unit, in.low, in.hi, in.label,
                            InitialEu)
             ELSE [out |-> New(in.cls, in.value, in.unit), eu |-> InitialEu]
        c == convert_to(n.out.val, in.target, n.eu)
    IN  [m |-> n.out.val, d |-> c.out.val,
         seen |-> __str__(c.out.val, c.eu)]

\* C16: in every interleaving of the threads, a thread that is done has the
\* objects and has seen the string it has when it runs alone.
C16_ThreadSafe ==
    \A t \in Threads :
        thread[t].pc = "done" =>
            /\ thread[t].m = Alone(thread[t].in).m
            /\ thread[t].d = Alone(thread[t].in).d
            /\ thread[t].seen = Alone(thread[t].in).seen

\* ------------------------------------------------------------------------
\* Claims about the resistance converters, checked in ConvSpec
\* ------------------------------------------------------------------------

\* A**2 - 4*B*(1 - R/R0) of the converter c for the resistance ohms
Discriminant(c, ohms) ==
    FSub(FPow(c.A, 2), FMul(FMul(F(4), c.B), FSub(F(1), FDiv(ohms, c.R0))))

\* _to_base of c takes the quadratic inverse for the resistance ohms
Quadratic(c, ohms) ==
    \/ c.kind = "Pt" /\ FGe(FDiv(ohms, c.R0), F(1))
    \/ c.kind = "Ni" /\ FLe(ohms, Dec(16172, -2))

\* C18: to_base of a platinum or nickel converter, with or without bounds,
\* never raises the "math domain error" of math.sqrt: when the resistance is
\* within the bounds and the discriminant of the quadratic inverse is
\* negative, the call raises an error of its own.
C18_Discriminant ==
    (/\ bench.op = "to_base"
     /\ Held.kind \in {"Pt", "Ni"}
     /\ ~OutsideRounded(bench.arg, Held.converted_low, Held.converted_hi)
     /\ Quadratic(Held, bench.arg)
     /\ FLt(Discriminant(Held, bench.arg), F(0))) =>
        /\ bench.out.err # NoExc
        /\ bench.out.err # ErrMath

\* |a - b| <= delta
Within(a, b, delta) == FLe(FAbs(FSub(a, b)), delta)

\* the delta of the assertion on to_base in the test of the converter c
BackwardDelta(c) == IF c.kind = "Pt" THEN Dec(15, -3) ELSE Dec(1, -2)

\* C19: from_base of every tabulated temperature returns the tabulated
\* resistance within 0.01, and to_base of every tabulated resistance returns
\* the tabulated temperature within 0.01, 0.015 for the platinum converter,
\* for the Pt100, Cu100 and Ni100 converters of the tests; neither call
\* raises, the ends of the domain included.
C19_Tables ==
    /\ bench.op = "from_base" =>
           \A p \in MeasurePoints(Held) :
               p[1] = bench.arg =>
                   /\ bench.out.err = NoExc
                   /\ Within(bench.out.val, p[2], Dec(1, -2))
    /\ bench.op = "to_base" =>
           \A p \in MeasurePoints(Held) :
               p[2] = bench.arg =>
                   /\ bench.out.err = NoExc
                   /\ Within(bench.out.val, p[1], BackwardDelta(Held))

\* C19 witness: to_base(60.26) of the Pt100 converter with its default
\* bounds returned a temperature within 0.015 of the tabulated -100 C, more
\* than 0.009 away from it
C19_Witness ==
    /\ bench.op = "to_base"
    /\ Held.kind = "Pt"
    /\ Held.base_low = F(-200)
    /\ bench.arg = Dec(6026, -2)
    /\ bench.out.err = NoExc
    /\ Within(bench.out.val, F(-100), Dec(15, -3))
    /\ ~Within(bench.out.val, F(-100), Dec(9, -3))

\* the resistance of the nickel converter c at 100 C
AtBreak(c) == NiFromBase(c, F(100)).val

\* C20: to_base(R) of a nickel converter, whatever its R0, returns the
\* quadratic inverse when R is at most the resistance of the converter at
\* 100 C, and otherwise 100 plus the series over D in
\* R/R0 - forward(100)/R0.
C20_Breakpoint ==
    (/\ bench.op = "to_base"
     /\ Held.kind = "Ni"
     /\ bench.out.err = NoExc) =>
        bench.out =
            IF FLe(bench.arg, AtBreak(Held))
            THEN QuadraticInverse(Held, bench.arg)
            ELSE Ok(Series(F(100), Held.D,
                           FSub(FDiv(bench.arg, Held.R0),
                                FDiv(AtBreak(Held), Held.R0)), 1))

\* the polynomial of PtResistConverter._from_base for t <= 0
PtBelow(c, t) ==
    FMul(c.R0,
         FAdd(FAdd(FAdd(F(1), FMul(c.A, t)), FMul(c.B, FPow(t, 2))),
              FMul(FMul(c.C, FSub(t, F(100))), FPow(t, 3))))

\* the polynomial of NiResistConverter._from_base for t <= 100
NiBelow(c, t) ==
    FMul(c.R0, FAdd(FAdd(F(1), FMul(c.A, t)), FMul(c.B, FPow(t, 2))))

\* C21: from_base of a platinum converter returns the polynomial with the C
\* term for every temperature below 0 its bounds check accepts, and from_base
\* of a nickel converter the polynomial without the C term for every
\* accepted temperature at most 100, the temperatures accepted through the
\* rounding at the lower bound included.
C21_Branch ==
    (bench.op = "from_base" /\ bench.out.err = NoExc) =>
        /\ (Held.kind = "Pt" /\ FLt(bench.arg, F(0))) =>
               bench.out.val = PtBelow(Held, bench.arg)
        /\ (Held.kind = "Ni" /\ FLe(bench.arg, F(100))) =>
               bench.out.val = NiBelow(Held, bench.arg)


\* the comparison _check_limits makes with the precision of the call
OutsideAt(value, low, hi, precision) ==
    \/ low # None /\ FLt(FRound(value, precision), FRound(low, precision))
    \/ hi # None /\ FGt(FRound(value, precision), FRound(hi, precision))

\* C22: a call of from_base or to_base with an explicit precision raises no
\* range error when the argument, rounded to that precision, lies within the
\* bounds rounded to that precision, whatever the kind of the converter
C22_OnlyRounding ==
    /\ bench.op = "from_base(precision)"
            /\ ~OutsideAt(bench.arg, Held.base_low, Held.base_hi,
                          bench.precision)
        => bench.out.err \notin RangeErrors
    /\ bench.op = "to_base(precision)"
            /\ ~OutsideAt(bench.arg, Held.converted_low, Held.converted_hi,
                          bench.precision)
        => bench.out.err \notin RangeErrors


\* C23: for a converter constructed with both base bounds, base_low <=
\* base_hi, the converted bounds are ordered, converted_low <= converted_hi,
\* to_base accepts every value from_base returned, and from_base accepts
\* every value to_base returned; for a coefficient of either sign
C23_Image ==
    (Bounded /\ FLe(Held.base_low, Held.base_hi)) =>
        /\ FLe(Held.converted_low, Held.converted_hi)
        /\ BackOfForward => bench.out.err \notin RangeErrors
        /\ ForwardOfBack => bench.out.err \notin RangeErrors


\* the last call was AnalogSensorMeasure(value, unit, low, hi, label) with a
\* unit of AnalogSensorMeasure.SupportedUnits
AnalogCalled ==
    /\ last.op = "new"
    /\ last.cls = "AnalogSensorMeasure"
    /\ last.unit.enum = "AnalogSensorMeasure"

\* C24 as stated: AnalogSensorMeasure(value, unit, low, hi, label) raises the
\* zero-coefficient ValueError when low = hi, whatever the value and the unit,
\* and returns an instance when low # hi.
C24_AsStated ==
    AnalogCalled =>
        /\ last.low = last.hi => (last.err = ErrCoeff /\ last.res = NotAMeasure)
        /\ last.low # last.hi => last.err = NoExc

\* C24 (amended): AnalogSensorMeasure(value, unit, low, hi, label) raises the
\* zero-coefficient ValueError when low = hi, whatever the value and the unit,
\* and returns an instance when (hi - low) / 100 is not zero.
C24_Endpoints ==
    AnalogCalled =>
        /\ last.low = last.hi => (last.err = ErrCoeff /\ last.res = NotAMeasure)
        /\ Span(last.low, last.hi) # F(0) => last.err = NoExc

\* C24 witness: a construction with equal endpoints in a unit that does not
\* use the scale raised the zero-coefficient error
C24_Witness ==
    /\ AnalogCalled
    /\ last.low = last.hi
    /\ last.unit = A("mA_4_20")
    /\ last.value = F(50)
    /\ last.err = ErrCoeff


\* c is one of the converters ThermoResistor._get_converters registers
Registered(c) ==
    \E u \in DOMAIN ThermoResistorConverters.val :
        /\ ThermoResistorConverters.val[u].kind = c.kind
        /\ ThermoResistorConverters.val[u] = c

\* the last call was to_base on a platinum or nickel converter of the
\* ThermoResistor registry and its bounds check accepted the resistance
AcceptedResistance ==
    /\ bench.op \in {"to_base", "to_base(precision)"}
    /\ Held.kind \in {"Pt", "Ni"}
    /\ Registered(Held)
    /\ bench.out.err \notin RangeErrors

\* C25: for the P100, P50, Pt100, Pt50 and Ni100 converters of the
\* ThermoResistor registry, with their default bounds, every resistance the
\* bounds check of to_base accepts has a non-negative discriminant on the
\* quadratic branch, and to_base returns without the "math domain error".
C25_NoDomainFault ==
    AcceptedResistance =>
        /\ bench.out.err = NoExc
        /\ Quadratic(Held, bench.arg) =>
               FGe(Discriminant(Held, bench.arg), F(0))

\* C25 witness: the P50 converter of the registry inverted a resistance
\* above its converted_hi, accepted by the rounding of the bounds check, on
\* the quadratic branch
C25_Witness ==
    /\ AcceptedResistance
    /\ Held.R0 = F(50)
    /\ Held.A = Dec(39690, -7)
    /\ FGt(bench.arg, Held.converted_hi)
    /\ Quadratic(Held, bench.arg)
    /\ bench.out.err = NoExc

====
